---- MODULE Spec2Model ----
(***************************************************************************)
(* LZO1Z codec (rhnvrm/lzo1z): the greedy encoder Compress with its        *)
(* literal and match emitters, and the decoder state machine Decompress.   *)
(*                                                                         *)
(* Byte buffers are sequences over 0..255; Go's zero-based index i is      *)
(* position i+1 of the sequence.  An output buffer is represented by its   *)
(* capacity (outLen) and the sequence of cells written so far: both        *)
(* functions write dst strictly left to right, starting at index 0.        *)
(* A Go index-out-of-range is the outcome "panic".                         *)
(***************************************************************************)
EXTENDS Integers, Sequences, FiniteSets, TLC

VARIABLES
    pc,             \* which function is running / has returned
    src,            \* Compress: input buffer
    outLen,         \* Compress: len(dst)
    dst,            \* Compress: cells of dst written so far
    ip,             \* Compress: input position
    op,             \* Compress: output position (the count returned)
    litStart,       \* Compress: start of pending literals
    isFirstOutput,  \* Compress: nothing emitted yet
    hashTable,      \* Compress: slot -> position (slots never stored hold -maxOffset)
    cerr,           \* Compress: error returned ("none" while running)
    dSrc,           \* Decompress: input buffer
    dOutLen,        \* Decompress: len(dst)
    dDst,           \* Decompress: cells of dst written so far
    dIp,            \* Decompress: input position
    dOp,            \* Decompress: output position (the count returned)
    lastMOff,       \* Decompress: last match offset
    state,          \* Decompress: state of the state machine
    derr,           \* Decompress: error returned ("none" while running)
    steps,          \* Decompress: iterations of the state loop so far
    calls,          \* Decompress: calls that returned before the current one
    eLit,           \* emitLiterals: lit
    eIsFirst,       \* emitLiterals: isFirst
    eOffset,        \* emitMatch: offset
    eLength,        \* emitMatch: length
    eLen,           \* emitLiterals, emitMatch: len(dst)
    eRet            \* emitLiterals, emitMatch: what the call returned and stored

cvars == <<src, outLen, dst, ip, op, litStart, isFirstOutput, hashTable, cerr>>
dvars == <<dSrc, dOutLen, dDst, dIp, dOp, lastMOff, state, derr, steps, calls>>
evars == <<eLit, eIsFirst, eOffset, eLength, eLen, eRet>>
vars == <<pc, cvars, dvars, evars>>

-----------------------------------------------------------------------------
(* Bit and byte primitives                                                 *)

Byte == 0..255

At(s, i) == s[i + 1]

Min(a, b) == IF a < b THEN a ELSE b

RECURSIVE BitAnd(_, _)
BitAnd(a, b) ==
    IF a = 0 \/ b = 0 THEN 0
    ELSE (IF a % 2 = 1 /\ b % 2 = 1 THEN 1 ELSE 0) + 2 * BitAnd(a \div 2, b \div 2)

RECURSIVE BitOr(_, _)
BitOr(a, b) ==
    IF a = 0 THEN b
    ELSE IF b = 0 THEN a
    ELSE (IF a % 2 = 1 \/ b % 2 = 1 THEN 1 ELSE 0) + 2 * BitOr(a \div 2, b \div 2)

\* byte(x): conversion of an int to uint8
ToByte(x) == x % 256

\* s[from:to] of Go (zero-based, to exclusive)
Slice(s, from, to) == SubSeq(s, from + 1, to)

-----------------------------------------------------------------------------
(* Encoder constants                                                       *)

hashBits == 14
hashSize == 16384
maxOffset == 49151
minMatch == 3
maxMatchLen == 264
hashMul == 506832829

\* uint32 multiplication v * hashMul, then >> (32 - hashBits) & hashMask.
\* v and hashMul are split into bytes so that no intermediate value needs
\* more than 31 bits; only the upper 16 bits of the 32-bit product are kept.
hash(s, p) ==
    IF p + 4 > Len(s) THEN 0
    ELSE LET b0 == At(s, p)
             b1 == At(s, p + 1)
             b2 == At(s, p + 2)
             b3 == At(s, p + 3)
             k0 == hashMul % 256
             k1 == (hashMul \div 256) % 256
             k2 == (hashMul \div 65536) % 256
             k3 == hashMul \div 16777216
             c0 == b0 * k0
             c1 == b0 * k1 + b1 * k0
             c2 == b0 * k2 + b1 * k1 + b2 * k0
             c3 == b0 * k3 + b1 * k2 + b2 * k1 + b3 * k0
             carry == (c0 + (c1 % 256) * 256) \div 65536
             hi == (carry + (c1 \div 256) + c2 + (c3 % 256) * 256) % 65536
         IN  (hi \div 2^(16 - hashBits)) % hashSize

\* hashTable[h] of the array initialised to -maxOffset
Slot(ht, h) == IF h \in DOMAIN ht THEN ht[h] ELSE -maxOffset

\* hashTable[h] = p
Store(ht, h, p) == (h :> p) @@ ht

-----------------------------------------------------------------------------
(* Emitters: each returns [n, err, out], out being the bytes stored into   *)
(* the slice it was given, in index order from 0.                          *)

Ret(n, err, out) == [n |-> n, err |-> err, out |-> out]

\* A run of stores dst[0], dst[1], ... of `bytes' made with no explicit
\* check: the store at index dstLen panics.
Unchecked(bytes, dstLen) ==
    IF Len(bytes) > dstLen THEN Ret(0, "panic", SubSeq(bytes, 1, dstLen))
    ELSE Ret(Len(bytes), "nil", bytes)

\* a plausible defect: the loop of the length-extension bytes run while
\* remaining >= 255, which ends a chain with the byte 0
RECURSIVE litChainToZero(_, _, _)
litChainToZero(out, dstLen, remaining) ==
    IF Len(out) >= dstLen THEN Ret(Len(out), "ErrOutputOverrun", out)
    ELSE IF remaining >= 255 THEN litChainToZero(out \o <<0>>, dstLen, remaining - 255)
    ELSE Ret(Len(out) + 1, "nil", out \o <<ToByte(remaining)>>)

\* for remaining > 255 { check; dst[op] = 0; op++; remaining -= 255 }
\* check; dst[op] = byte(remaining); op++
RECURSIVE litChain(_, _, _)
litChain(out, dstLen, remaining) ==
    IF Len(out) >= dstLen THEN Ret(Len(out), "ErrOutputOverrun", out)
    ELSE IF remaining > 255 THEN litChain(out \o <<0>>, dstLen, remaining - 255)
    ELSE Ret(Len(out) + 1, "nil", out \o <<ToByte(remaining)>>)

litPrefix(litLen, dstLen, isFirst) ==
    IF isFirst /\ litLen <= 238 THEN
        IF litLen <= 3 THEN
            IF 1 + litLen > dstLen THEN Ret(0, "ErrOutputOverrun", <<>>)
            ELSE Ret(1, "nil", <<ToByte(litLen + 17)>>)
        ELSE IF litLen <= 18 THEN
            IF 1 + litLen > dstLen THEN Ret(0, "ErrOutputOverrun", <<>>)
            ELSE Ret(1, "nil", <<ToByte(litLen - 3)>>)
        ELSE
            IF 2 + litLen > dstLen THEN Ret(0, "ErrOutputOverrun", <<>>)
            ELSE IF litLen - 18 <= 255 THEN Ret(2, "nil", <<0, ToByte(litLen - 18)>>)
            ELSE litChain(<<0>>, dstLen, litLen - 18)
    ELSE
        IF litLen <= 18 THEN
            IF 1 + litLen > dstLen THEN Ret(0, "ErrOutputOverrun", <<>>)
            ELSE Ret(1, "nil", <<ToByte(litLen - 3)>>)
        ELSE
            LET first == Unchecked(<<0>>, dstLen)
            IN  IF first.err # "nil" THEN first
                ELSE litChain(<<0>>, dstLen, litLen - 18)

\* a plausible defect: the form of the first run ("len + 17" for 1..3
\* literals) never used
emitLiteralsNeverFirst(lit, dstLen, isFirst) ==
    IF Len(lit) = 0 THEN Ret(0, "nil", <<>>)
    ELSE LET p == litPrefix(Len(lit), dstLen, FALSE)
         IN  IF p.err # "nil" THEN p
             ELSE IF p.n + Len(lit) > dstLen THEN Ret(p.n, "ErrOutputOverrun", p.out)
             ELSE Ret(p.n + Len(lit), "nil", p.out \o lit)

emitLiterals(lit, dstLen, isFirst) ==
    IF Len(lit) = 0 THEN Ret(0, "nil", <<>>)
    ELSE LET p == litPrefix(Len(lit), dstLen, isFirst)
         IN  IF p.err # "nil" THEN p
             ELSE IF p.n + Len(lit) > dstLen THEN Ret(p.n, "ErrOutputOverrun", p.out)
             ELSE Ret(p.n + Len(lit), "nil", p.out \o lit)

\* a plausible defect: each zero byte of a length extension counted as 256
RECURSIVE matchChainBy256(_)
matchChainBy256(remaining) ==
    IF remaining > 255 THEN <<0>> \o matchChainBy256(remaining - 256)
    ELSE <<ToByte(remaining)>>

\* for remaining > 255 { dst[op] = 0; op++; remaining -= 255 }; dst[op] = byte(remaining)
RECURSIVE matchChain(_)
matchChain(remaining) ==
    IF remaining > 255 THEN <<0>> \o matchChain(remaining - 255)
    ELSE <<ToByte(remaining)>>

\* a plausible defect: the two offset bytes in the LZO1X layout
offsetBytesLZO1X(off) == <<ToByte((off % 64) * 4), ToByte(off \div 64)>>

\* offByte0 := (off >> 6) & 0xff; offByte1 := (off & 0x3f) << 2
offsetBytes(off) == <<ToByte(BitAnd(off \div 64, 255)), ToByte((off % 64) * 4)>>

\* a plausible defect: the M2 form taken for every length its tag can hold
\* (3..8), as in the reference format
emitMatchLongM2(dstLen, offset, length) ==
    IF dstLen < 4 THEN Ret(0, "ErrOutputOverrun", <<>>)
    ELSE IF length >= 3 /\ length <= 8 /\ offset >= 1 /\ offset <= 1792 THEN
        LET off == offset - 1
            offHigh == BitAnd(off \div 64, 31)
            offLow == (off % 64) * 4
            lenCode == (length - 1) * 32
        IN  Unchecked(<<ToByte(BitOr(lenCode, offHigh)), ToByte(offLow)>>, dstLen)
    ELSE IF length >= 3 /\ offset >= 1 /\ offset <= 16384 THEN
        LET off == offset - 1
            tag == IF length <= 33 THEN <<ToByte(BitOr(32, length - 2))>>
                   ELSE <<32>> \o matchChain(length - 2 - 31)
        IN  Unchecked(tag \o offsetBytes(off), dstLen)
    ELSE IF offset > 16384 /\ offset <= 49151 THEN
        LET off == offset - 16384
            offHigh == BitAnd(off \div 2048, 8)
            tag == IF length <= 9 THEN <<ToByte(BitOr(BitOr(16, offHigh), length - 2))>>
                   ELSE <<ToByte(BitOr(16, offHigh))>> \o matchChain(length - 2 - 7)
        IN  Unchecked(tag \o offsetBytes(off), dstLen)
    ELSE Ret(0, "ErrOutputOverrun", <<>>)

emitMatch(dstLen, offset, length) ==
    IF dstLen < 4 THEN Ret(0, "ErrOutputOverrun", <<>>)
    ELSE IF length >= 3 /\ length <= 4 /\ offset >= 1 /\ offset <= 1792 THEN
        LET off == offset - 1
            offHigh == BitAnd(off \div 64, 31)
            offLow == (off % 64) * 4
            lenCode == (length - 1) * 32
        IN  Unchecked(<<ToByte(BitOr(lenCode, offHigh)), ToByte(offLow)>>, dstLen)
    ELSE IF length >= 3 /\ offset >= 1 /\ offset <= 16384 THEN
        LET off == offset - 1
            tag == IF length <= 33 THEN <<ToByte(BitOr(32, length - 2))>>
                   ELSE <<32>> \o matchChain(length - 2 - 31)
        IN  Unchecked(tag \o offsetBytes(off), dstLen)
    ELSE IF offset > 16384 /\ offset <= 49151 THEN
        LET off == offset - 16384
            offHigh == BitAnd(off \div 2048, 8)
            tag == IF length <= 9 THEN <<ToByte(BitOr(BitOr(16, offHigh), length - 2))>>
                   ELSE <<ToByte(BitOr(16, offHigh))>> \o matchChain(length - 2 - 7)
        IN  Unchecked(tag \o offsetBytes(off), dstLen)
    ELSE Ret(0, "ErrOutputOverrun", <<>>)

\* a plausible defect: the 64 + 3 bytes of slack left out
MaxCompressedSizeNoSlack(n) == IF n = 0 THEN 3 ELSE n + (n \div 16)

MaxCompressedSize(n) == IF n = 0 THEN 3 ELSE n + (n \div 16) + 64 + 3


-----------------------------------------------------------------------------
(* Compress                                                                *)

\* a plausible defect: the byte at ref+matchLen compared with the last byte
\* matched instead of the next one
RECURSIVE extendMatchOffByOne(_, _, _, _, _)
extendMatchOffByOne(s, ref, p, matchLen, maxLen) ==
    IF matchLen >= maxLen THEN matchLen
    ELSE IF maxLen - matchLen = 1
    THEN (IF At(s, ref + matchLen) = At(s, p + matchLen - 1) THEN matchLen + 1 ELSE matchLen)
    ELSE LET half == matchLen + (maxLen - matchLen) \div 2
             m == extendMatchOffByOne(s, ref, p, matchLen, half)
         IN  IF m < half THEN m ELSE extendMatchOffByOne(s, ref, p, half, maxLen)

\* for matchLen < maxLen && src[ref+matchLen] == src[ip+matchLen] { matchLen++ }
\* The iterations up to "half" run first, and the rest only if none of them
\* left the loop, so that the evaluation nests to a depth of log2(maxLen).
RECURSIVE extendMatch(_, _, _, _, _)
extendMatch(s, ref, p, matchLen, maxLen) ==
    IF matchLen >= maxLen THEN matchLen
    ELSE IF maxLen - matchLen = 1
    THEN (IF At(s, ref + matchLen) = At(s, p + matchLen) THEN matchLen + 1 ELSE matchLen)
    ELSE LET half == matchLen + (maxLen - matchLen) \div 2
             m == extendMatch(s, ref, p, matchLen, half)
         IN  IF m < half THEN m ELSE extendMatch(s, ref, p, half, maxLen)

\* for i := from; i < newIp && i < inLen-4; i++ { hashTable[hash(i)] = i }
\* The slots the loop stores for the positions i .. end - 1, in that order:
\* a later store to a slot replaces an earlier one.
RECURSIVE refreshed(_, _, _)
refreshed(s, i, end) ==
    IF i >= end THEN <<>>
    ELSE IF end - i = 1 THEN hash(s, i) :> i
    ELSE LET half == i + (end - i) \div 2
         IN  refreshed(s, half, end) @@ refreshed(s, i, half)

refreshHash(ht, s, i, newIp) == refreshed(s, i, Min(newIp, Len(s) - 4)) @@ ht

\* a plausible defect: the EOF marker with the plain M4 tag, 0x10
eofMarkerPlainM4 == <<16, 0, 0>>

\* the three-byte EOF marker, written after a check of op+3 against len(dst)
eofMarker == <<17, 0, 0>>

\* a plausible defect: the check before the EOF marker off by one
compressLiteralsOnlyTightEOF(s, dstLen) ==
    LET e == emitLiterals(s, dstLen, TRUE)
    IN  IF e.err # "nil" THEN Ret(0, e.err, e.out)
        ELSE IF e.n + 3 >= dstLen THEN Ret(e.n, "ErrOutputOverrun", e.out)
        ELSE Ret(e.n + 3, "nil", e.out \o eofMarker)

compressLiteralsOnly(s, dstLen) ==
    LET e == emitLiterals(s, dstLen, TRUE)
    IN  IF e.err # "nil" THEN Ret(0, e.err, e.out)
        ELSE IF e.n + 3 > dstLen THEN Ret(e.n, "ErrOutputOverrun", e.out)
        ELSE Ret(e.n + 3, "nil", e.out \o eofMarker)

\* return n, err  (the cells stored so far stay in dst)
CompressReturn(n, err, written) ==
    /\ pc' = "Compressed"
    /\ op' = n
    /\ cerr' = err
    /\ dst' = written

\* a plausible defect: no early return for the empty input, which then takes
\* the path of the short inputs and gets an EOF marker
CompressEmptyAsShort ==
    /\ pc = "Compress"
    /\ IF Len(src) <= 3 THEN
           LET r == compressLiteralsOnly(src, outLen)
           IN  /\ CompressReturn(r.n, r.err, r.out)
               /\ UNCHANGED <<ip, litStart, isFirstOutput, hashTable>>
       ELSE
           /\ pc' = "CompressLoop"
           /\ ip' = 0
           /\ op' = 0
           /\ litStart' = 0
           /\ isFirstOutput' = TRUE
           /\ hashTable' = <<>>
           /\ UNCHANGED <<dst, cerr>>
    /\ UNCHANGED <<src, outLen, dvars, evars>>

\* Entry of Compress up to the main loop: the empty and the short input
\* return at once, every other input sets up the cursors and the hash table.
Compress ==
    /\ pc = "Compress"
    /\ IF Len(src) = 0 THEN
           /\ CompressReturn(0, "nil", dst)
           /\ UNCHANGED <<ip, litStart, isFirstOutput, hashTable>>
       ELSE IF Len(src) <= 3 THEN
           LET r == compressLiteralsOnly(src, outLen)
           IN  /\ CompressReturn(r.n, r.err, r.out)
               /\ UNCHANGED <<ip, litStart, isFirstOutput, hashTable>>
       ELSE
           /\ pc' = "CompressLoop"
           /\ ip' = 0
           /\ op' = 0
           /\ litStart' = 0
           /\ isFirstOutput' = TRUE
           /\ hashTable' = <<>>
           /\ UNCHANGED <<dst, cerr>>
    /\ UNCHANGED <<src, outLen, dvars, evars>>

\* a plausible defect: only the gate on the bytes left after the match
skipMatchTailOnly(isFirst, litLen, remainingAfterMatch) ==
    remainingAfterMatch > 0 /\ remainingAfterMatch < 4

\* the two gates on a match found: 1..3 literals pending mid-stream, or 1..3
\* bytes left after the match
skipMatch(isFirst, litLen, remainingAfterMatch) ==
    \/ ~isFirst /\ litLen > 0 /\ litLen < 4
    \/ remainingAfterMatch > 0 /\ remainingAfterMatch < 4

\* a plausible defect: litStart set to the start of the match it has just
\* emitted, not to its end
CompressLoopKeepsLitStart ==
    /\ pc = "CompressLoop"
    /\ ip < Len(src) - minMatch
    /\ LET inLen == Len(src)
           h == hash(src, ip)
           ref == Slot(hashTable, h)
           ht == Store(hashTable, h, ip)
           offset == ip - ref
           found == /\ offset > 0 /\ offset <= maxOffset /\ ref >= 0 /\ ip + 4 <= inLen
                    /\ At(src, ref) = At(src, ip)
                    /\ At(src, ref + 1) = At(src, ip + 1)
                    /\ At(src, ref + 2) = At(src, ip + 2)
           matchLen == extendMatch(src, ref, ip, 3, Min(inLen - ip, maxMatchLen))
           litLen == ip - litStart
           remainingAfterMatch == inLen - (ip + matchLen)
           skip == /\ ip' = ip + 1
                   /\ hashTable' = ht
                   /\ UNCHANGED <<pc, op, litStart, isFirstOutput, dst, cerr>>
       IN  IF ~found THEN skip
           ELSE IF skipMatch(isFirstOutput, litLen, remainingAfterMatch) THEN skip
           ELSE
               LET l == IF litLen > 0
                        THEN emitLiterals(Slice(src, litStart, ip), outLen - op, isFirstOutput)
                        ELSE Ret(0, "nil", <<>>)
                   m == emitMatch(outLen - (op + l.n), offset, matchLen)
               IN  IF l.err # "nil" THEN
                       /\ CompressReturn(op, l.err, dst \o l.out)
                       /\ hashTable' = ht
                       /\ UNCHANGED <<ip, litStart, isFirstOutput>>
                   ELSE IF m.err # "nil" THEN
                       /\ CompressReturn(op + l.n, m.err, dst \o l.out \o m.out)
                       /\ hashTable' = ht
                       /\ UNCHANGED <<ip, litStart, isFirstOutput>>
                   ELSE
                       /\ dst' = dst \o l.out \o m.out
                       /\ op' = op + l.n + m.n
                       /\ isFirstOutput' = FALSE
                       /\ ip' = ip + matchLen
                       /\ litStart' = ip
                       /\ hashTable' = refreshHash(ht, src, ip + 1, ip + matchLen)
                       /\ UNCHANGED <<pc, cerr>>
    /\ UNCHANGED <<src, outLen, dvars, evars>>

\* One iteration of the main loop.
CompressLoop ==
    /\ pc = "CompressLoop"
    /\ ip < Len(src) - minMatch
    /\ LET inLen == Len(src)
           h == hash(src, ip)
           ref == Slot(hashTable, h)
           ht == Store(hashTable, h, ip)
           offset == ip - ref
           found == /\ offset > 0 /\ offset <= maxOffset /\ ref >= 0 /\ ip + 4 <= inLen
                    /\ At(src, ref) = At(src, ip)
                    /\ At(src, ref + 1) = At(src, ip + 1)
                    /\ At(src, ref + 2) = At(src, ip + 2)
           matchLen == extendMatch(src, ref, ip, 3, Min(inLen - ip, maxMatchLen))
           litLen == ip - litStart
           remainingAfterMatch == inLen - (ip + matchLen)
           skip == /\ ip' = ip + 1
                   /\ hashTable' = ht
                   /\ UNCHANGED <<pc, op, litStart, isFirstOutput, dst, cerr>>
       IN  IF ~found THEN skip
           ELSE IF skipMatch(isFirstOutput, litLen, remainingAfterMatch) THEN skip
           ELSE
               LET l == IF litLen > 0
                        THEN emitLiterals(Slice(src, litStart, ip), outLen - op, isFirstOutput)
                        ELSE Ret(0, "nil", <<>>)
                   m == emitMatch(outLen - (op + l.n), offset, matchLen)
               IN  IF l.err # "nil" THEN
                       /\ CompressReturn(op, l.err, dst \o l.out)
                       /\ hashTable' = ht
                       /\ UNCHANGED <<ip, litStart, isFirstOutput>>
                   ELSE IF m.err # "nil" THEN
                       /\ CompressReturn(op + l.n, m.err, dst \o l.out \o m.out)
                       /\ hashTable' = ht
                       /\ UNCHANGED <<ip, litStart, isFirstOutput>>
                   ELSE
                       /\ dst' = dst \o l.out \o m.out
                       /\ op' = op + l.n + m.n
                       /\ isFirstOutput' = FALSE
                       /\ ip' = ip + matchLen
                       /\ litStart' = ip + matchLen
                       /\ hashTable' = refreshHash(ht, src, ip + 1, ip + matchLen)
                       /\ UNCHANGED <<pc, cerr>>
    /\ UNCHANGED <<src, outLen, dvars, evars>>

\* After the loop: the remaining bytes as literals, then the EOF marker.
CompressTail ==
    /\ pc = "CompressLoop"
    /\ ~(ip < Len(src) - minMatch)
    /\ LET litLen == Len(src) - litStart
           l == IF litLen > 0
                THEN emitLiterals(Slice(src, litStart, Len(src)), outLen - op, isFirstOutput)
                ELSE Ret(0, "nil", <<>>)
       IN  IF l.err # "nil" THEN CompressReturn(op, l.err, dst \o l.out)
           ELSE IF op + l.n + 3 > outLen THEN CompressReturn(op + l.n, "ErrOutputOverrun", dst \o l.out)
           ELSE CompressReturn(op + l.n + 3, "nil", dst \o l.out \o eofMarker)
    /\ UNCHANGED <<src, outLen, ip, litStart, isFirstOutput, hashTable, dvars, evars>>

-----------------------------------------------------------------------------
(* Decompress: the state of one call is the record                         *)
(* [state, ip, op, lastMOff, dst, err]; err is "none" while the loop runs. *)
(* Each handler is one iteration of the loop `for state != stateEOF`.      *)

m2MaxOffset == 1792
m4MaxOffset == 16384

\* return op, err
Return(d, e) == [d EXCEPT !.err = e]

\* for i := 0; i < t; i++ { dst[op] = src[ip]; op++; ip++ }
\* The loop itself checks nothing: it panics at the first index out of range.
copyLiterals(s, dstLen, d, t) ==
    IF d.ip + t > Len(s) \/ d.op + t > dstLen THEN
        LET k == Min(Len(s) - d.ip, dstLen - d.op)
        IN  [d EXCEPT !.dst = @ \o Slice(s, d.ip, d.ip + k),
                      !.op = @ + k, !.ip = @ + k, !.err = "panic"]
    ELSE [d EXCEPT !.dst = @ \o Slice(s, d.ip, d.ip + t), !.op = @ + t, !.ip = @ + t]

\* One store dst[op] = dst[mPos] of a lookbehind copy, op as given by the
\* cells written so far.  A negative mPos or an op at the capacity panics;
\* a cell not yet written in this call holds whatever the caller left there.
copyByte(dstLen, d, mPos) ==
    IF d.err # "none" THEN d
    ELSE IF mPos < 0 \/ Len(d.dst) >= dstLen THEN [d EXCEPT !.err = "panic"]
    ELSE IF mPos >= Len(d.dst) THEN [d EXCEPT !.err = "uninitialised"]
    ELSE [d EXCEPT !.dst = @ \o <<At(@, mPos)>>]

\* a plausible defect: the match copied as one block, copy(dst[op:op+mLen],
\* dst[mPos:mPos+mLen]), which reads the cells at and beyond op as the
\* caller left them (here: zero) instead of as the copy has just written them
copyMatchBlock(dstLen, d, mOff, mLen) ==
    IF mLen <= 0 \/ d.err # "none" THEN d
    ELSE IF d.op - mOff < 0 \/ d.op + mLen > dstLen THEN [d EXCEPT !.err = "panic"]
    ELSE [d EXCEPT !.dst = @ \o [i \in 1..mLen |->
                                    IF i <= mOff THEN d.dst[d.op - mOff + i] ELSE 0],
                   !.op = @ + mLen]

\* mPos := op - mOff; for i := 0; i < mLen; i++ { dst[op] = dst[mPos]; op++; mPos++ }
RECURSIVE copyMatch(_, _, _, _)
copyMatch(dstLen, d, mOff, mLen) ==
    IF mLen <= 0 \/ d.err # "none" THEN d
    ELSE IF mLen = 1
    THEN LET c == copyByte(dstLen, d, d.op - mOff)
         IN  IF c.err = "none" THEN [c EXCEPT !.op = @ + 1] ELSE c
    ELSE LET half == mLen \div 2            \* the first bytes, then the rest
         IN  copyMatch(dstLen, copyMatch(dstLen, d, mOff, half), mOff, mLen - half)

\* mPos := op - mOff; dst[op] = dst[mPos]; ...; dst[op+n-1] = dst[mPos+n-1]; op += n
RECURSIVE copyUnrolled(_, _, _, _, _)
copyUnrolled(dstLen, d, mPos, i, n) ==
    IF i = n THEN (IF d.err = "none" THEN [d EXCEPT !.op = @ + n] ELSE d)
    ELSE copyUnrolled(dstLen, copyByte(dstLen, d, mPos + i), mPos, i + 1, n)

\* The number of iterations of "for ip < inLen && src[ip] == 0" from ip = p,
\* inLen = q: the iterations up to "half" first, the rest only if none of
\* them left the loop, so that the evaluation nests to a depth of log2(q - p).
RECURSIVE zeroCount(_, _, _)
zeroCount(s, p, q) ==
    IF p >= q THEN 0
    ELSE IF q - p = 1 THEN (IF At(s, p) = 0 THEN 1 ELSE 0)
    ELSE LET half == p + (q - p) \div 2
             n == zeroCount(s, p, half)
         IN  IF n < half - p THEN n ELSE n + zeroCount(s, half, q)

\* a plausible defect: each zero byte counted as 256
zeroRunBy256(s, p, t) ==
    LET n == zeroCount(s, p, Len(s)) IN <<t + 256 * n, p + n>>

\* for ip < inLen && src[ip] == 0 { t += 255; ip++ }   gives <<t, ip>>
zeroRun(s, p, t) ==
    LET n == zeroCount(s, p, Len(s)) IN <<t + 255 * n, p + n>>

\* a plausible defect: the tag 17 taken for a literal run of "tag - 17" bytes
stateStartFrom17(s, dstLen, d) ==
    IF d.ip >= Len(s) THEN Return(d, "ErrInputOverrun")
    ELSE LET t0 == At(s, d.ip) IN
         IF t0 >= 17 THEN
             LET t == t0 - 17
                 d1 == [d EXCEPT !.ip = @ + 1]
             IN  IF d1.op + t > dstLen THEN Return(d1, "ErrOutputOverrun")
                 ELSE IF d1.ip + t > Len(s) THEN Return(d1, "ErrInputOverrun")
                 ELSE [copyLiterals(s, dstLen, d1, t) EXCEPT
                          !.state = IF t < 4 THEN "stateMatchNext" ELSE "stateFirstLiteralRun"]
         ELSE [d EXCEPT !.state = "stateLiteralRun"]

\* a plausible defect: the two copy branches of the start state merged, so
\* that a run of 1..3 literals is followed like a longer one
stateStartMerged(s, dstLen, d) ==
    IF d.ip >= Len(s) THEN Return(d, "ErrInputOverrun")
    ELSE LET t0 == At(s, d.ip) IN
         IF t0 > 17 THEN
             LET t == t0 - 17
                 d1 == [d EXCEPT !.ip = @ + 1]
             IN  IF d1.op + t > dstLen THEN Return(d1, "ErrOutputOverrun")
                 ELSE IF d1.ip + t > Len(s) THEN Return(d1, "ErrInputOverrun")
                 ELSE [copyLiterals(s, dstLen, d1, t) EXCEPT !.state = "stateFirstLiteralRun"]
         ELSE [d EXCEPT !.state = "stateLiteralRun"]

stateStart(s, dstLen, d) ==
    IF d.ip >= Len(s) THEN Return(d, "ErrInputOverrun")
    ELSE LET t0 == At(s, d.ip) IN
         IF t0 > 17 THEN
             LET t == t0 - 17
                 d1 == [d EXCEPT !.ip = @ + 1]
             IN  IF d1.op + t > dstLen THEN Return(d1, "ErrOutputOverrun")
                 ELSE IF d1.ip + t > Len(s) THEN Return(d1, "ErrInputOverrun")
                 ELSE [copyLiterals(s, dstLen, d1, t) EXCEPT
                          !.state = IF t < 4 THEN "stateMatchNext" ELSE "stateFirstLiteralRun"]
         ELSE [d EXCEPT !.state = "stateLiteralRun"]

\* a plausible defect: the tag of a match not put back ("ip--" left out)
stateLiteralRunNoPutBack(s, dstLen, d) ==
    IF d.ip >= Len(s) THEN Return(d, "ErrInputOverrun")
    ELSE LET t0 == At(s, d.ip) IN
         IF t0 >= 16 THEN [d EXCEPT !.ip = @ + 1, !.state = "stateMatch"]
         ELSE LET z == zeroRun(s, d.ip + 1, t0)
                  overrun == t0 = 0 /\ z[2] >= Len(s)
                  t == IF t0 = 0 THEN z[1] + 15 + At(s, z[2]) ELSE t0
                  d1 == [d EXCEPT !.ip = IF t0 = 0 THEN z[2] + 1 ELSE @ + 1]
                  copyLen == t + 3
              IN  IF overrun THEN Return([d EXCEPT !.ip = z[2]], "ErrInputOverrun")
                  ELSE IF d1.op + copyLen > dstLen THEN Return(d1, "ErrOutputOverrun")
                  ELSE IF d1.ip + copyLen > Len(s) THEN Return(d1, "ErrInputOverrun")
                  ELSE [copyLiterals(s, dstLen, d1, copyLen) EXCEPT
                           !.state = "stateFirstLiteralRun"]

stateLiteralRun(s, dstLen, d) ==
    IF d.ip >= Len(s) THEN Return(d, "ErrInputOverrun")
    ELSE LET t0 == At(s, d.ip) IN
         IF t0 >= 16 THEN [d EXCEPT !.state = "stateMatch"]
         ELSE LET z == zeroRun(s, d.ip + 1, t0)
                  overrun == t0 = 0 /\ z[2] >= Len(s)
                  t == IF t0 = 0 THEN z[1] + 15 + At(s, z[2]) ELSE t0
                  d1 == [d EXCEPT !.ip = IF t0 = 0 THEN z[2] + 1 ELSE @ + 1]
                  copyLen == t + 3
              IN  IF overrun THEN Return([d EXCEPT !.ip = z[2]], "ErrInputOverrun")
                  ELSE IF d1.op + copyLen > dstLen THEN Return(d1, "ErrOutputOverrun")
                  ELSE IF d1.ip + copyLen > Len(s) THEN Return(d1, "ErrInputOverrun")
                  ELSE [copyLiterals(s, dstLen, d1, copyLen) EXCEPT
                           !.state = "stateFirstLiteralRun"]

\* a plausible defect: the M1 opcode after a literal run decoded like the M1
\* opcode of the Match state (offset from 1, two bytes)
stateFirstLiteralRunPlainM1(s, dstLen, d) ==
    IF d.ip >= Len(s) THEN Return(d, "ErrInputOverrun")
    ELSE LET t == At(s, d.ip) IN
         IF t >= 16 THEN [d EXCEPT !.state = "stateMatch"]
         ELSE IF d.ip + 1 >= Len(s) THEN Return([d EXCEPT !.ip = @ + 1], "ErrInputOverrun")
         ELSE LET mOff == 1 + t * 64 + (At(s, d.ip + 1) \div 4)
                  d1 == [d EXCEPT !.ip = @ + 2, !.lastMOff = mOff]
              IN  IF mOff > d1.op THEN Return(d1, "ErrLookbehindOverrun")
                  ELSE IF d1.op + 2 > dstLen THEN Return(d1, "ErrOutputOverrun")
                  ELSE [copyUnrolled(dstLen, d1, d1.op - mOff, 0, 2) EXCEPT
                           !.state = "stateMatchDone"]

stateFirstLiteralRun(s, dstLen, d) ==
    IF d.ip >= Len(s) THEN Return(d, "ErrInputOverrun")
    ELSE LET t == At(s, d.ip) IN
         IF t >= 16 THEN [d EXCEPT !.state = "stateMatch"]
         ELSE IF d.ip + 1 >= Len(s) THEN Return([d EXCEPT !.ip = @ + 1], "ErrInputOverrun")
         ELSE LET mOff == (1 + m2MaxOffset) + t * 64 + (At(s, d.ip + 1) \div 4)
                  d1 == [d EXCEPT !.ip = @ + 2, !.lastMOff = mOff]
              IN  IF mOff > d1.op THEN Return(d1, "ErrLookbehindOverrun")
                  ELSE IF d1.op + 3 > dstLen THEN Return(d1, "ErrOutputOverrun")
                  ELSE [copyUnrolled(dstLen, d1, d1.op - mOff, 0, 3) EXCEPT
                           !.state = "stateMatchDone"]

\* a plausible defect: the copy loop entered without the check of op+mLen
\* against len(dst)
lookbehindNoOutputCheck(dstLen, d, mOff, mLen) ==
    IF mOff > d.op THEN Return(d, "ErrLookbehindOverrun")
    ELSE [copyMatch(dstLen, d, mOff, mLen) EXCEPT !.state = "stateMatchDone"]

\* a plausible defect: the wrong error for a copy that does not fit
lookbehindWrongError(dstLen, d, mOff, mLen) ==
    IF mOff > d.op THEN Return(d, "ErrLookbehindOverrun")
    ELSE IF d.op + mLen > dstLen THEN Return(d, "ErrLookbehindOverrun")
    ELSE [copyMatch(dstLen, d, mOff, mLen) EXCEPT !.state = "stateMatchDone"]

\* a plausible defect: the check of op+mLen against len(dst) made before the
\* check of the offset
lookbehindOutputFirst(dstLen, d, mOff, mLen) ==
    IF d.op + mLen > dstLen THEN Return(d, "ErrOutputOverrun")
    ELSE IF mOff > d.op THEN Return(d, "ErrLookbehindOverrun")
    ELSE [copyMatch(dstLen, d, mOff, mLen) EXCEPT !.state = "stateMatchDone"]

\* a plausible defect: the room in dst checked inside the copy loop, which
\* then returns after the bytes that fit
lookbehindCheckInLoop(dstLen, d, mOff, mLen) ==
    IF mOff > d.op THEN Return(d, "ErrLookbehindOverrun")
    ELSE IF d.op + mLen > dstLen
    THEN Return(copyMatch(dstLen, d, mOff, dstLen - d.op), "ErrOutputOverrun")
    ELSE [copyMatch(dstLen, d, mOff, mLen) EXCEPT !.state = "stateMatchDone"]

\* the checks and the copy loop shared by the M2, M3 and M4 branches
lookbehind(dstLen, d, mOff, mLen) ==
    IF mOff > d.op THEN Return(d, "ErrLookbehindOverrun")
    ELSE IF d.op + mLen > dstLen THEN Return(d, "ErrOutputOverrun")
    ELSE [copyMatch(dstLen, d, mOff, mLen) EXCEPT !.state = "stateMatchDone"]

\* a plausible defect: offset reuse without the check of lastMOff == 0
matchM2ReuseUnchecked(s, dstLen, d, t) ==
    LET off == BitAnd(t, 31)
        mLen == ((t \div 32) - 1) + 2
    IN  IF off >= 28 THEN lookbehind(dstLen, d, d.lastMOff, mLen)
        ELSE IF d.ip >= Len(s) THEN Return(d, "ErrInputOverrun")
        ELSE LET mOff == 1 + off * 64 + (At(s, d.ip) \div 4)
             IN  lookbehind(dstLen, [d EXCEPT !.ip = @ + 1, !.lastMOff = mOff], mOff, mLen)

\* a plausible defect: the M2 offset in the LZO1X layout,
\* 1 + ((t >> 2) & 7) + (b << 3)
matchM2OffsetLZO1X(s, dstLen, d, t) ==
    LET off == BitAnd(t, 31)
        mLen == ((t \div 32) - 1) + 2
    IN  IF off >= 28 THEN
            IF d.lastMOff = 0 THEN Return(d, "ErrLookbehindOverrun")
            ELSE lookbehind(dstLen, d, d.lastMOff, mLen)
        ELSE IF d.ip >= Len(s) THEN Return(d, "ErrInputOverrun")
        ELSE LET mOff == 1 + BitAnd(t \div 4, 7) + At(s, d.ip) * 8
             IN  lookbehind(dstLen, [d EXCEPT !.ip = @ + 1, !.lastMOff = mOff], mOff, mLen)

matchM2(s, dstLen, d, t) ==
    LET off == BitAnd(t, 31)
        mLen == ((t \div 32) - 1) + 2
    IN  IF off >= 28 THEN
            IF d.lastMOff = 0 THEN Return(d, "ErrLookbehindOverrun")
            ELSE lookbehind(dstLen, d, d.lastMOff, mLen)
        ELSE IF d.ip >= Len(s) THEN Return(d, "ErrInputOverrun")
        ELSE LET mOff == 1 + off * 64 + (At(s, d.ip) \div 4)
             IN  lookbehind(dstLen, [d EXCEPT !.ip = @ + 1, !.lastMOff = mOff], mOff, mLen)

\* the length of an M3 (base 31) or M4 (base 7) opcode: <<mLen, ip, overrun>>
matchLength(s, p, lenBits, base) ==
    IF lenBits # 0 THEN <<lenBits, p, FALSE>>
    ELSE LET z == zeroRun(s, p, 0)
         IN  IF z[2] >= Len(s) THEN <<0, z[2], TRUE>>
             ELSE <<z[1] + base + At(s, z[2]), z[2] + 1, FALSE>>

\* a plausible defect: the M3 branch without "lastMOff = mOff"
matchM3KeepsLastMOff(s, dstLen, d, t) ==
    LET l == matchLength(s, d.ip, BitAnd(t, 31), 31)
        d1 == [d EXCEPT !.ip = l[2]]
    IN  IF l[3] THEN Return(d1, "ErrInputOverrun")
        ELSE IF d1.ip + 2 > Len(s) THEN Return(d1, "ErrInputOverrun")
        ELSE LET mOff == 1 + At(s, d1.ip) * 64 + (At(s, d1.ip + 1) \div 4)
             IN  lookbehind(dstLen, [d1 EXCEPT !.ip = @ + 2], mOff, l[1] + 2)

matchM3(s, dstLen, d, t) ==
    LET l == matchLength(s, d.ip, BitAnd(t, 31), 31)
        d1 == [d EXCEPT !.ip = l[2]]
    IN  IF l[3] THEN Return(d1, "ErrInputOverrun")
        ELSE IF d1.ip + 2 > Len(s) THEN Return(d1, "ErrInputOverrun")
        ELSE LET mOff == 1 + At(s, d1.ip) * 64 + (At(s, d1.ip + 1) \div 4)
             IN  lookbehind(dstLen, [d1 EXCEPT !.ip = @ + 2, !.lastMOff = mOff],
                            mOff, l[1] + 2)

\* a plausible defect: the EOF marker recognised by its usual tag, 0x11, only
matchM4EOFByTag(s, dstLen, d, t) ==
    LET l == matchLength(s, d.ip, BitAnd(t, 7), 7)
        d1 == [d EXCEPT !.ip = l[2]]
    IN  IF l[3] THEN Return(d1, "ErrInputOverrun")
        ELSE IF d1.ip + 2 > Len(s) THEN Return(d1, "ErrInputOverrun")
        ELSE LET raw == BitAnd(t, 8) * 2048 + At(s, d1.ip) * 64 + (At(s, d1.ip + 1) \div 4)
                 d2 == [d1 EXCEPT !.ip = @ + 2]
             IN  IF raw = 0 /\ t = 17 THEN [d2 EXCEPT !.state = "stateEOF", !.err = "nil"]
                 ELSE lookbehind(dstLen, [d2 EXCEPT !.lastMOff = raw + m4MaxOffset],
                                 raw + m4MaxOffset, l[1] + 2)

\* a plausible defect: the EOF marker accepted only as the last bytes of src,
\* as the reference decoder does ("input not consumed")
matchM4InputNotConsumed(s, dstLen, d, t) ==
    LET l == matchLength(s, d.ip, BitAnd(t, 7), 7)
        d1 == [d EXCEPT !.ip = l[2]]
    IN  IF l[3] THEN Return(d1, "ErrInputOverrun")
        ELSE IF d1.ip + 2 > Len(s) THEN Return(d1, "ErrInputOverrun")
        ELSE LET raw == BitAnd(t, 8) * 2048 + At(s, d1.ip) * 64 + (At(s, d1.ip + 1) \div 4)
                 d2 == [d1 EXCEPT !.ip = @ + 2]
             IN  IF raw = 0 THEN
                     IF d2.ip = Len(s) THEN [d2 EXCEPT !.state = "stateEOF", !.err = "nil"]
                     ELSE Return(d2, "ErrInputOverrun")
                 ELSE lookbehind(dstLen, [d2 EXCEPT !.lastMOff = raw + m4MaxOffset],
                                 raw + m4MaxOffset, l[1] + 2)

matchM4(s, dstLen, d, t) ==
    LET l == matchLength(s, d.ip, BitAnd(t, 7), 7)
        d1 == [d EXCEPT !.ip = l[2]]
    IN  IF l[3] THEN Return(d1, "ErrInputOverrun")
        ELSE IF d1.ip + 2 > Len(s) THEN Return(d1, "ErrInputOverrun")
        ELSE LET raw == BitAnd(t, 8) * 2048 + At(s, d1.ip) * 64 + (At(s, d1.ip + 1) \div 4)
                 d2 == [d1 EXCEPT !.ip = @ + 2]
             IN  IF raw = 0 THEN [d2 EXCEPT !.state = "stateEOF", !.err = "nil"]
                 ELSE lookbehind(dstLen, [d2 EXCEPT !.lastMOff = raw + m4MaxOffset],
                                 raw + m4MaxOffset, l[1] + 2)

matchM1(s, dstLen, d, t) ==
    IF d.ip >= Len(s) THEN Return(d, "ErrInputOverrun")
    ELSE LET mOff == 1 + t * 64 + (At(s, d.ip) \div 4)
             d1 == [d EXCEPT !.ip = @ + 1, !.lastMOff = mOff]
         IN  IF mOff > d1.op THEN Return(d1, "ErrLookbehindOverrun")
             ELSE IF d1.op + 2 > dstLen THEN Return(d1, "ErrOutputOverrun")
             ELSE [copyUnrolled(dstLen, d1, d1.op - mOff, 0, 2) EXCEPT
                      !.state = "stateMatchDone"]

\* t := int(src[ip]); ip++; then the branch of the opcode family
matchOpcode(s, dstLen, d) ==
    LET t == At(s, d.ip)
        d1 == [d EXCEPT !.ip = @ + 1]
    IN  IF t >= 64 THEN matchM2(s, dstLen, d1, t)
        ELSE IF t >= 32 THEN matchM3(s, dstLen, d1, t)
        ELSE IF t >= 16 THEN matchM4(s, dstLen, d1, t)
        ELSE matchM1(s, dstLen, d1, t)

\* a plausible defect: the end of the input at an opcode boundary taken for
\* the end of the stream
stateMatchEndIsEOF(s, dstLen, d) ==
    IF d.ip >= Len(s) THEN [d EXCEPT !.state = "stateEOF", !.err = "nil"]
    ELSE matchOpcode(s, dstLen, d)

stateMatch(s, dstLen, d) ==
    IF d.ip >= Len(s) THEN Return(d, "ErrInputOverrun")
    ELSE matchOpcode(s, dstLen, d)

\* a plausible defect: the count taken from the byte before the last, as in
\* LZO1X ("ip[-2] & 3")
stateMatchDoneLZO1X(s, dstLen, d) ==
    IF d.ip < 2 \/ d.ip > Len(s) THEN [d EXCEPT !.state = "stateLiteralRun"]
    ELSE LET t == BitAnd(At(s, d.ip - 2), 3) IN
         IF t = 0 THEN [d EXCEPT !.state = "stateLiteralRun"]
         ELSE IF d.op + t > dstLen THEN Return(d, "ErrOutputOverrun")
         ELSE IF d.ip + t > Len(s) THEN Return(d, "ErrInputOverrun")
         ELSE [copyLiterals(s, dstLen, d, t) EXCEPT !.state = "stateMatchNext"]

stateMatchDone(s, dstLen, d) ==
    IF d.ip = 0 \/ d.ip > Len(s) THEN [d EXCEPT !.state = "stateLiteralRun"]
    ELSE LET t == BitAnd(At(s, d.ip - 1), 3) IN
         IF t = 0 THEN [d EXCEPT !.state = "stateLiteralRun"]
         ELSE IF d.op + t > dstLen THEN Return(d, "ErrOutputOverrun")
         ELSE IF d.ip + t > Len(s) THEN Return(d, "ErrInputOverrun")
         ELSE [copyLiterals(s, dstLen, d, t) EXCEPT !.state = "stateMatchNext"]

\* a plausible defect: the state left as it is
stateMatchNextStays(s, dstLen, d) == d

\* a plausible defect: after 1..3 literals the next opcode parsed like the
\* opcode after a match without trailing literals
stateMatchNextToLiteralRun(s, dstLen, d) == [d EXCEPT !.state = "stateLiteralRun"]

stateMatchNext(s, dstLen, d) == [d EXCEPT !.state = "stateMatch"]


stateHandler(s, dstLen, d) ==
    CASE d.state = "stateStart" -> stateStart(s, dstLen, d)
      [] d.state = "stateLiteralRun" -> stateLiteralRun(s, dstLen, d)
      [] d.state = "stateFirstLiteralRun" -> stateFirstLiteralRun(s, dstLen, d)
      [] d.state = "stateMatch" -> stateMatch(s, dstLen, d)
      [] d.state = "stateMatchDone" -> stateMatchDone(s, dstLen, d)
      [] d.state = "stateMatchNext" -> stateMatchNext(s, dstLen, d)

\* a plausible defect: lastMOff initialised to the least offset, 1
decoderEntryOffsetOne ==
    [state |-> "stateStart", ip |-> 0, op |-> 0, lastMOff |-> 1, dst |-> <<>>, err |-> "none"]

\* the locals of Decompress on entry to the loop
decoderEntry ==
    [state |-> "stateStart", ip |-> 0, op |-> 0, lastMOff |-> 0, dst |-> <<>>, err |-> "none"]

\* for state != stateEOF { switch state {...} }
RECURSIVE stateLoop(_, _, _)
stateLoop(s, dstLen, d) ==
    IF d.err # "none" THEN d ELSE stateLoop(s, dstLen, stateHandler(s, dstLen, d))

\* Decompress(s, dst) with len(dst) = dstLen, as a function: [n, err, out]
DecompressResult(s, dstLen) ==
    IF Len(s) = 0 THEN Ret(0, "nil", <<>>)
    ELSE LET d == stateLoop(s, dstLen, decoderEntry) IN Ret(d.op, d.err, d.dst)

DecoderState ==
    [state |-> state, ip |-> dIp, op |-> dOp, lastMOff |-> lastMOff, dst |-> dDst, err |-> derr]

\* one iteration of the state loop, and the return when it ends the call
Iterate(d) ==
    /\ state' = d.state
    /\ dIp' = d.ip
    /\ dOp' = d.op
    /\ lastMOff' = d.lastMOff
    /\ dDst' = d.dst
    /\ derr' = d.err
    /\ steps' = steps + 1
    /\ pc' = IF d.err # "none" THEN "Decompressed" ELSE "DecompressLoop"
    /\ UNCHANGED <<dSrc, dOutLen, calls, cvars, evars>>

\* a plausible defect: lastMOff kept in a package-level variable, which a
\* call finds as the call before left it
DecompressKeepsLastMOff ==
    /\ pc = "Decompress"
    /\ state' = decoderEntry.state
    /\ dIp' = decoderEntry.ip
    /\ dOp' = decoderEntry.op
    /\ dDst' = decoderEntry.dst
    /\ IF Len(dSrc) = 0
       THEN pc' = "Decompressed" /\ derr' = "nil"
       ELSE pc' = "DecompressLoop" /\ derr' = decoderEntry.err
    /\ UNCHANGED <<dSrc, dOutLen, lastMOff, steps, calls, cvars, evars>>

\* Entry of Decompress: every local is declared afresh, nothing has been
\* stored yet, and the empty input returns (0, nil) at once.
Decompress ==
    /\ pc = "Decompress"
    /\ state' = decoderEntry.state
    /\ dIp' = decoderEntry.ip
    /\ dOp' = decoderEntry.op
    /\ lastMOff' = decoderEntry.lastMOff
    /\ dDst' = decoderEntry.dst
    /\ IF Len(dSrc) = 0
       THEN pc' = "Decompressed" /\ derr' = "nil"
       ELSE pc' = "DecompressLoop" /\ derr' = decoderEntry.err
    /\ UNCHANGED <<dSrc, dOutLen, steps, calls, cvars, evars>>

Start ==
    /\ pc = "DecompressLoop" /\ state = "stateStart"
    /\ Iterate(stateStart(dSrc, dOutLen, DecoderState))

LiteralRun ==
    /\ pc = "DecompressLoop" /\ state = "stateLiteralRun"
    /\ Iterate(stateLiteralRun(dSrc, dOutLen, DecoderState))

FirstLiteralRun ==
    /\ pc = "DecompressLoop" /\ state = "stateFirstLiteralRun"
    /\ Iterate(stateFirstLiteralRun(dSrc, dOutLen, DecoderState))

Match ==
    /\ pc = "DecompressLoop" /\ state = "stateMatch"
    /\ Iterate(stateMatch(dSrc, dOutLen, DecoderState))

MatchDone ==
    /\ pc = "DecompressLoop" /\ state = "stateMatchDone"
    /\ Iterate(stateMatchDone(dSrc, dOutLen, DecoderState))

MatchNext ==
    /\ pc = "DecompressLoop" /\ state = "stateMatchNext"
    /\ Iterate(stateMatchNext(dSrc, dOutLen, DecoderState))

-----------------------------------------------------------------------------
(* Inputs of Compress                                                      *)

MaxLen == 7
MaxCap == 7

Alphabet == {97, 98}

Rep(b, k) == [i \in 1..k |-> b]

\* k bytes without a repeated four-byte window: 0, 1, 2, ... for the first
\* 256 positions, then in steps of 3, of 5, ...
Ramp(k) == [i \in 1..k |-> ((i - 1) * (1 + 2 * ((i - 1) \div 256))) % 256]

ShortInputs == UNION {[1..n -> Alphabet] : n \in 0..MaxLen}

RepLens == {0, 5, 36, 270}
RampLens == {0, 4, 19, 239, 275}
TailLens == {0, 6}

LongInputs ==
    {Rep(97, a) \o Ramp(r) \o Rep(98, c) : a \in RepLens, r \in RampLens, c \in TailLens}

\* runs of one byte: the shortest with a match, those around the lengths at
\* which the match opcode grows (a match of 33 and of 34 bytes), the run of
\* TestCompressWithVeryLongMatch's kind that the format documents ("A" x 40),
\* and those around the longest match
RunBytes == {0, 65, 255}
RunLens == {5, 34, 35, 40, 265, 266, 270}
RunInputs == {Rep(b, k) : b \in RunBytes, k \in RunLens}

Inputs == ShortInputs \cup LongInputs \cup RunInputs

\* len(dst): what MaxCompressedSize asks for, or a small buffer
Capacities(x) == {MaxCompressedSize(Len(x))} \cup (0..MaxCap)

idleEncoder ==
    /\ src = <<>> /\ outLen = 0 /\ dst = <<>> /\ ip = 0 /\ op = 0 /\ litStart = 0
    /\ isFirstOutput = TRUE /\ hashTable = <<>> /\ cerr = "none"

idleDecoder ==
    /\ dSrc = <<>> /\ dOutLen = 0 /\ dDst = <<>> /\ dIp = 0 /\ dOp = 0 /\ lastMOff = 0
    /\ state = "stateStart" /\ derr = "none" /\ steps = 0 /\ calls = 0

idleEmitter ==
    /\ eLit = <<>> /\ eIsFirst = FALSE /\ eOffset = 0 /\ eLength = 0 /\ eLen = 0
    /\ eRet = Ret(0, "none", <<>>)

Init ==
    /\ pc = "Compress"
    /\ src \in Inputs
    /\ outLen \in Capacities(src)
    /\ dst = <<>> /\ ip = 0 /\ op = 0 /\ litStart = 0
    /\ isFirstOutput = TRUE /\ hashTable = <<>> /\ cerr = "none"
    /\ idleDecoder
    /\ idleEmitter

\* The round trip of FuzzRoundtrip: Compress into a buffer of
\* MaxCompressedSize(len(input)) bytes, then Decompress of compBuf[:compLen];
\* the truncation tests hand Decompress a proper prefix instead.
Roundtrip ==
    /\ pc = "Compressed"
    /\ cerr = "nil"
    /\ outLen = MaxCompressedSize(Len(src))
    /\ \E k \in (IF op = 0 THEN {0} ELSE 1..op) : dSrc' = SubSeq(dst, 1, k)
    /\ dOutLen' \in {Len(src), Len(src) + 1} \cup (IF Len(src) > 0 THEN {Len(src) - 1} ELSE {})
    /\ pc' = "Decompress"
    /\ UNCHANGED <<cvars, dDst, dIp, dOp, lastMOff, state, derr, steps, calls, evars>>

-----------------------------------------------------------------------------
(* Inputs of Decompress alone: streams built from opcodes, cut anywhere,   *)
(* and every short byte string over the bytes that select a branch.        *)

MaxWords == 2
MaxRaw == 2
MaxDecCap == 3
AmpleCap == 400

\* what a stream may open with: nothing, 1 literal ("tag - 17"), 4
\* literals the same way, a literal run of 4 with tag 1
Openers == {<<>>, <<18, 7>>, <<21, 1, 2, 3, 4>>, <<1, 5, 6, 7, 8>>}

\* M1 (offset 1); M2 length 3 offset 1; M2 length 4 offset 2 with one
\* trailing literal; M2 reusing the last offset (length 3, and length 8
\* with one trailing literal); M3 length 3 offset 1; M3 with an extended
\* length (34) and two trailing literals; M4 with offset 32768; a literal
\* run of 4
Words == {<<0, 0>>, <<64, 0>>, <<96, 5>>, <<92>>, <<253>>, <<33, 0, 0>>,
          <<32, 1, 0, 6>>, <<25, 0, 0>>, <<1, 5, 6, 7, 8>>}

Closers == {<<>>, eofMarker}

RawBytes == {0, 1, 3, 16, 17, 18, 32, 64, 92, 255}

RECURSIVE WordSeqs(_)
WordSeqs(k) ==
    IF k = 0 THEN {<<>>}
    ELSE LET shorter == WordSeqs(k - 1) IN shorter \cup {a \o w : a \in shorter, w \in Words}

Streams ==
    LET whole == {o \o m \o c : o \in Openers, m \in WordSeqs(MaxWords), c \in Closers}
    IN  UNION {{SubSeq(s, 1, k) : k \in 0..Len(s)} : s \in whole}
        \cup UNION {[1..n -> RawBytes] : n \in 0..MaxRaw}

DecoderCapacities == (0..MaxDecCap) \cup {AmpleCap}

\* the shortest output that an M4 match can follow: m4MaxOffset + 1 literals
farLiterals == [i \in 1..(m4MaxOffset + 1) |-> (i - 1) % 251]

\* the shortest output that an M4 match with the high offset bit can follow
fartherLiterals == [i \in 1..(2 * m4MaxOffset + 1) |-> (i - 1) % 251]

\* a literal run of m4MaxOffset + 1 bytes (tag 0, 64 zero bytes, 47), an M4
\* match of length 3 at offset m4MaxOffset + 1, the EOF marker
\* and a literal run of m2MaxOffset + 1 bytes (tag 0, 6 zero bytes, 245), the
\* 3-byte M1 match that may follow a literal run, at its least offset
\* m2MaxOffset + 1, the EOF marker
\* and a literal run of 1859 bytes (tag 0, 7 zero bytes, 56), the 3-byte M1
\* match at offset 1793 + 64 + 2 with one trailing literal, an M2 match that
\* reuses that offset, the EOF marker
\* and the m4MaxOffset + 1 literals again, an M4 match with an extended length
\* (tag 16, one zero byte, 1: 265 bytes) at offset m4MaxOffset + 1 with one
\* trailing literal, the EOF marker
\* and an M4 match with the high offset bit set in its tag (offset
\* 2 * m4MaxOffset + 1), after m4MaxOffset + 1 literals, which are too few for
\* it, and after 2 * m4MaxOffset + 1 literals
FarStreams ==
    {<<0>> \o Rep(0, 64) \o <<47>> \o farLiterals \o <<17, 0, 4>> \o eofMarker,
     <<0>> \o Rep(0, 6) \o <<245>> \o SubSeq(farLiterals, 1, m2MaxOffset + 1)
          \o <<0, 0>> \o eofMarker,
     <<0>> \o Rep(0, 7) \o <<56>> \o SubSeq(farLiterals, 1, 1859)
          \o <<1, 9, 200, 92>> \o eofMarker,
     <<0>> \o Rep(0, 64) \o <<47>> \o farLiterals \o <<16, 0, 1, 0, 5, 200>> \o eofMarker,
     <<0>> \o Rep(0, 64) \o <<47>> \o farLiterals \o <<25, 0, 4>> \o eofMarker,
     <<0>> \o Rep(0, 128) \o <<111>> \o fartherLiterals \o <<25, 0, 4>> \o eofMarker}

\* room for the literals and the match, and one byte less; room for the
\* longest of the far streams
FarCapacities ==
    {Len(farLiterals) + 2, Len(farLiterals) + 3, Len(farLiterals) + 266,
     Len(fartherLiterals) + 3}

\* Streams for the forms the short words leave out, each cut anywhere:
\* a literal run with the extended length 16 (19 bytes), then an M2;
\* an M3 with its length extended by one zero byte (289 bytes, offset 1);
\* the EOF marker with an extended length and low bits 3 in its last byte;
\* the EOF marker with length bits 7;
\* a literal run of 68 bytes, an M2 with one trailing literal, an M1 at
\* offset 1 + 64 + 2 with one trailing literal, an M2 reusing that offset
\* with three trailing literals, an M2
\* of length 8 at offset 2, an M3 that is not the end of the stream;
\* one literal, an M1 at offset 1 with two trailing literals, an M2;
\* two streams that go on after their EOF marker, with an M2 that could be
\* decoded and with bytes that could not.
EdgeStreams ==
    LET whole == {<<0, 1>> \o Ramp(19) \o <<64, 0>> \o eofMarker,
                  <<21, 1, 2, 3, 4, 32, 0, 1, 0, 0>> \o eofMarker,
                  <<18, 7, 16, 0, 3, 0, 3>>,
                  <<18, 7, 23, 0, 1>>,
                  <<0, 50>> \o Ramp(68)
                      \o <<64, 1, 200, 1, 9, 204, 95, 201, 202, 203, 224, 4, 33, 0, 0>>
                      \o eofMarker,
                  <<18, 7, 0, 2, 8, 9, 64, 0>> \o eofMarker,
                  <<18, 7, 64, 0>> \o eofMarker \o <<64, 0>> \o eofMarker,
                  <<21, 1, 2, 3, 4>> \o eofMarker \o <<0, 255>>}
    IN  UNION {{SubSeq(s, 1, k) : k \in 0..Len(s)} : s \in whole}

InitDecoder ==
    /\ pc = "Decompress"
    /\ idleEncoder
    /\ idleEmitter
    /\ \/ dSrc \in Streams /\ dOutLen \in DecoderCapacities
       \/ dSrc \in FarStreams /\ dOutLen \in FarCapacities
       \/ dSrc \in EdgeStreams /\ dOutLen \in {MaxDecCap, AmpleCap}
    /\ dDst = <<>> /\ dIp = 0 /\ dOp = 0 /\ lastMOff = 0
    /\ state = "stateStart" /\ derr = "none" /\ steps = 0 /\ calls = 0

DecoderNext == Decompress \/ Start \/ LiteralRun \/ FirstLiteralRun \/ Match \/ MatchDone \/ MatchNext

Next == Compress \/ CompressLoop \/ CompressTail \/ Roundtrip \/ DecoderNext

Spec == Init /\ [][Next]_vars

\* Decompress on its own, on arbitrary streams
SpecDec == InitDecoder /\ [][DecoderNext]_vars

-----------------------------------------------------------------------------
(* Decompress called again by the same caller, with the same output buffer *)

MaxEarlier == 1

\* streams of the first call: whole opcode sequences, left unterminated
EarlierStreams == {o \o m : o \in Openers, m \in WordSeqs(MaxWords)}

\* streams of a later call: the empty input, the EOF marker alone, and M2
\* offset reuse met before any match of the call
LaterStreams == {<<>>, eofMarker, <<18, 7, 92>>, <<21, 1, 2, 3, 4, 253>>}

InitAgain ==
    /\ pc = "Decompress"
    /\ idleEncoder
    /\ idleEmitter
    /\ dSrc \in EarlierStreams
    /\ dOutLen \in {MaxDecCap, AmpleCap}
    /\ dDst = <<>> /\ dIp = 0 /\ dOp = 0 /\ lastMOff = 0
    /\ state = "stateStart" /\ derr = "none" /\ steps = 0 /\ calls = 0

\* The caller calls Decompress once more with another input and the same
\* dst; whatever the call before left behind is still there.
DecompressAgain ==
    /\ pc = "Decompressed"
    /\ calls < MaxEarlier
    /\ pc' = "Decompress"
    /\ dSrc' \in LaterStreams
    /\ calls' = calls + 1
    /\ steps' = 0
    /\ UNCHANGED <<dOutLen, dDst, dIp, dOp, lastMOff, state, derr, cvars, evars>>

AgainNext == DecoderNext \/ DecompressAgain

SpecAgain == InitAgain /\ [][AgainNext]_vars


-----------------------------------------------------------------------------
(* Properties                                                              *)

compressReturned == pc \notin {"Compress", "CompressLoop"}

exactBuffer == outLen = MaxCompressedSize(Len(src))

\* Decompress was handed everything Compress produced
wholeStream == Len(dSrc) = op

\* C1: Compress into a buffer of MaxCompressedSize(len(x)) bytes succeeds,
\* and Decompress of the bytes it produced, into a buffer of at least len(x)
\* bytes, succeeds and returns exactly the bytes of x.
RoundTrip ==
    /\ (compressReturned /\ exactBuffer) => cerr = "nil"
    /\ (pc = "Decompressed" /\ wholeStream /\ dOutLen >= Len(src))
          => (derr = "nil" /\ dOp = Len(src) /\ dDst = src)

\* a round trip of an input with a long literal run and a match
RoundTripWitness ==
    /\ pc = "Decompressed" /\ wholeStream /\ derr = "nil" /\ dDst = src
    /\ ~isFirstOutput /\ Len(src) > 18

CompressNeverOverruns ==
    /\ cerr \in {"none", "nil", "ErrOutputOverrun"}
    /\ Len(dst) <= outLen

\* C8: with ample output capacity, Decompress of a non-empty proper prefix
\* of a compressed stream returns ErrInputOverrun.
TruncationDetected ==
    (pc = "Decompressed" /\ Len(dSrc) >= 1 /\ Len(dSrc) < op /\ dOutLen >= Len(src))
        => derr = "ErrInputOverrun"

\* a stream cut just before an opcode, after some output
TruncationWitness ==
    /\ pc = "Decompressed" /\ Len(dSrc) >= 1 /\ Len(dSrc) < op /\ dOutLen >= Len(src)
    /\ derr = "ErrInputOverrun" /\ state = "stateMatch" /\ dIp = Len(dSrc) /\ dOp > 0

\* C10: Compress of the empty input returns (0, nil) and stores nothing,
\* whatever the capacity; so does Decompress of the empty input.
EmptyIsNoOp ==
    /\ (compressReturned /\ Len(src) = 0) => (cerr = "nil" /\ op = 0 /\ dst = <<>>)
    /\ (pc = "Decompressed" /\ Len(dSrc) = 0) => (derr = "nil" /\ dOp = 0 /\ dDst = <<>>)

\* both calls done on the empty input, Decompress with capacity 0
EmptyWitness ==
    /\ pc = "Decompressed" /\ Len(src) = 0 /\ Len(dSrc) = 0 /\ dOutLen = 0
    /\ cerr = "nil" /\ derr = "nil"

\* C3: in every state of Decompress 0 <= ip <= len(src) and
\* 0 <= op <= len(dst); no index is out of range, the cells written are
\* exactly dst[0..op), and no cell is read before it was written.
DecoderMemorySafe ==
    /\ derr \notin {"panic", "uninitialised"}
    /\ 0 <= dIp /\ dIp <= Len(dSrc)
    /\ 0 <= dOp /\ dOp <= dOutLen
    /\ Len(dDst) = dOp

\* a lookbehind copy refused because it would pass the end of dst
DecoderMemorySafeWitness ==
    /\ pc = "Decompressed" /\ derr = "ErrOutputOverrun" /\ state = "stateMatch"
    /\ dOp > 0 /\ lastMOff > 0 /\ lastMOff <= dOp

\* the states with a case in the switch of the loop
loopStates == {"stateStart", "stateLiteralRun", "stateFirstLiteralRun", "stateMatch",
               "stateMatchDone", "stateMatchNext"}

\* C4: the state loop runs at most 3 * ip + 2 <= 3 * len(src) + 2
\* iterations, a call that has not returned is in a state the loop handles,
\* and a call that has returned gave success or one of the three overrun
\* errors.
DecoderTerminates ==
    /\ steps <= 3 * dIp + 2
    /\ dIp <= Len(dSrc)
    /\ pc = "DecompressLoop" => (derr = "none" /\ state \in loopStates)
    /\ pc = "Decompressed"
          => derr \in {"nil", "ErrInputOverrun", "ErrOutputOverrun", "ErrLookbehindOverrun"}

\* a call that returned success after going round the match cycle
DecoderTerminatesWitness ==
    pc = "Decompressed" /\ derr = "nil" /\ steps >= 8

\* C6: when a stream decodes to y with ample capacity, Decompress with a
\* capacity c < len(y) returns ErrOutputOverrun and a count n <= c, and
\* dst[0..n) = y[0..n).
OverrunKeepsPrefix ==
    (pc = "Decompressed" /\ dOutLen < AmpleCap) =>
        LET y == DecompressResult(dSrc, AmpleCap)
        IN  (y.err = "nil" /\ dOutLen < y.n) =>
                /\ derr = "ErrOutputOverrun"
                /\ dOp <= dOutLen
                /\ SubSeq(dDst, 1, dOp) = SubSeq(y.out, 1, dOp)

\* a valid stream stopped at a match that does not fit, after some output
OverrunKeepsPrefixWitness ==
    /\ pc = "Decompressed" /\ dOutLen < AmpleCap /\ derr = "ErrOutputOverrun"
    /\ state = "stateMatch" /\ dOp > 0
    /\ DecompressResult(dSrc, AmpleCap).err = "nil"

matchContext == pc = "DecompressLoop" /\ state \in {"stateMatch", "stateFirstLiteralRun"}

\* the tag at ip asks for an M2 with offset reuse
reuseTag ==
    /\ state = "stateMatch" /\ dIp < Len(dSrc)
    /\ At(dSrc, dIp) >= 64 /\ BitAnd(At(dSrc, dIp), 31) >= 28

unchangedOutput == dOp' = dOp /\ dDst' = dDst

\* C7: a step that copies from the lookbehind uses an offset with
\* 0 < mOff <= op; an offset beyond op, and offset reuse while lastMOff is 0,
\* return ErrLookbehindOverrun and leave the output as it was.
LookbehindChecked ==
    [][matchContext =>
          /\ dOp' > dOp => (0 < lastMOff' /\ lastMOff' <= dOp)
          /\ lastMOff' > dOp => (derr' = "ErrLookbehindOverrun" /\ unchangedOutput)
          /\ (reuseTag /\ lastMOff = 0) => (derr' = "ErrLookbehindOverrun" /\ unchangedOutput)]_vars

\* offset reuse met before any match, after some output
LookbehindWitness ==
    /\ pc = "Decompressed" /\ derr = "ErrLookbehindOverrun" /\ state = "stateMatch"
    /\ lastMOff = 0 /\ dOp > 0 /\ At(dSrc, dIp - 1) >= 64

\* C9: Decompress of exactly 0x11 0x00 0x00 returns (0, nil) and stores
\* nothing, whatever the capacity.
EOFOnly ==
    (pc = "Decompressed" /\ dSrc = eofMarker) => (derr = "nil" /\ dOp = 0 /\ dDst = <<>>)

\* the marker decoded into a buffer of capacity 0
EOFOnlyWitness ==
    pc = "Decompressed" /\ dSrc = eofMarker /\ dOutLen = 0 /\ derr = "nil" /\ dIp = 3

\* C11: for an input of 1 to 3 bytes, Compress into at least len(x) + 4
\* bytes stores len(x) + 17, the bytes of x and 0x11 0x00 0x00 and returns
\* len(x) + 4; into fewer bytes it returns ErrOutputOverrun.
ShortInputExact ==
    (compressReturned /\ Len(src) \in 1..3) =>
        IF outLen >= Len(src) + 4
        THEN /\ cerr = "nil"
             /\ op = Len(src) + 4
             /\ dst = <<Len(src) + 17>> \o src \o <<17, 0, 0>>
        ELSE cerr = "ErrOutputOverrun"

\* "ab" into a buffer of exactly 6 bytes
ShortInputWitness ==
    /\ compressReturned /\ src = <<97, 98>> /\ outLen = 6
    /\ cerr = "nil" /\ dst = <<19, 97, 98, 17, 0, 0>>

\* C12: a step that copies a match of offset mOff to output position p
\* leaves dst[0..p) as it was and gives dst[p + i] = dst[p + i - mOff] for
\* every byte i of the match, also where the match overlaps its own output;
\* with mOff = 1 the match repeats dst[p - 1].
ForwardCopy ==
    [][(matchContext /\ dOp' > dOp) =>
          /\ Len(dDst') = dOp'
          /\ SubSeq(dDst', 1, dOp) = dDst
          /\ \A i \in 1..(dOp' - dOp) : dDst'[dOp + i] = dDst'[dOp + i - lastMOff']
          /\ lastMOff' = 1 => \A i \in 1..(dOp' - dOp) : dDst'[dOp + i] = dDst[dOp]]_vars

\* an M2 match of length 3 at offset 1 after the single literal 7
ForwardCopyWitness ==
    /\ pc = "DecompressLoop" /\ state = "stateMatchDone" /\ lastMOff = 1
    /\ dSrc[3] = 64 /\ dIp = 4 /\ dDst = <<7, 7, 7, 7>>

\* C14: a call of Decompress made after earlier calls returns the count,
\* the error and the bytes dst[0..n) of a first call with the same input and
\* capacity, and no call reads a cell of dst it has not written itself.
NoCrossCallState ==
    /\ derr # "uninitialised"
    /\ (pc = "Decompressed" /\ calls > 0) =>
           LET fresh == DecompressResult(dSrc, dOutLen)
           IN  derr = fresh.err /\ dOp = fresh.n /\ dDst = fresh.out

\* offset reuse before any match of the call, refused in a later call
NoCrossCallStateWitness ==
    /\ pc = "Decompressed" /\ calls > 0 /\ dSrc = <<18, 7, 92>>
    /\ derr = "ErrLookbehindOverrun" /\ dOp = 1 /\ dOutLen = AmpleCap

\* the head of an iteration of the main loop of Compress
loopHead == pc = "CompressLoop" /\ ip < Len(src) - minMatch

\* the position the hash table gives for the four bytes at ip
candRef == Slot(hashTable, hash(src, ip))

\* that position passes the test of a match
candFound ==
    /\ ip - candRef > 0 /\ ip - candRef <= maxOffset /\ candRef >= 0 /\ ip + 4 <= Len(src)
    /\ \A i \in 0..2 : At(src, candRef + i) = At(src, ip + i)

\* the length the match is extended to
candLen == extendMatch(src, candRef, ip, 3, Min(Len(src) - ip, maxMatchLen))

\* a step of Compress that calls an emitter
emits == pc = "CompressLoop" /\ (op' # op \/ pc' = "Compressed")

\* the literals pending when a step emits: up to ip in the loop, up to the
\* end of the input after it
pending == (IF ip < Len(src) - minMatch THEN ip ELSE Len(src)) - litStart

\* C16: a literal run emitted after the first output has at least 4 bytes,
\* between matches and at the tail; a match found with 1..3 literals pending
\* after the first output, or leaving 1..3 bytes of input after it, is
\* refused: ip advances by one and nothing else of the cursor changes.
EncodabilityGate ==
    [][/\ (emits /\ ~isFirstOutput) => (pending = 0 \/ pending >= 4)
       /\ (/\ loopHead /\ candFound
           /\ \/ ~isFirstOutput /\ ip - litStart \in 1..3
              \/ Len(src) - (ip + candLen) \in 1..3)
          => (ip' = ip + 1 /\ UNCHANGED <<pc, op, dst, litStart, isFirstOutput>>)]_vars

\* a match found after the first output with 1..3 literals pending
EncodabilityGateWitness ==
    loopHead /\ candFound /\ ~isFirstOutput /\ ip - litStart \in 1..3

\* the offsets and lengths at which emitMatch changes form
EdgeOffsets == {1, 64, 1792, 1793, 16384, 16385, 32767, 32768, 49151}
EdgeLengths == {3, 4, 5, 9, 10, 33, 34, 264}

\* the bytes of one match opcode: not M1; an M2 only of length 3 or 4 with
\* its own offset; no trailing literals announced
matchShape(m) ==
    /\ m[1] >= 16
    /\ m[1] >= 64 => (m[1] < 128 /\ BitAnd(m[1], 31) < 28)
    /\ BitAnd(m[Len(m)], 3) = 0

\* C17: parsing what Compress emitted, the decoder never meets an M1 tag
\* where a match may stand, meets an M2 tag only with length 3 or 4 and
\* without offset reuse, and finds the trailing-literal count 0 after every
\* match; emitMatch gives its output this shape at every change of form.
EmittedOpcodes ==
    /\ pc = "Compress" =>
           \A o \in EdgeOffsets, l \in EdgeLengths :
               LET m == emitMatch(4, o, l) IN m.err = "nil" /\ matchShape(m.out)
    /\ (pc = "DecompressLoop" /\ state \in {"stateMatch", "stateFirstLiteralRun"}
           /\ dIp < Len(dSrc))
          => LET t == At(dSrc, dIp)
             IN  t >= 16 /\ (t >= 64 => (t < 128 /\ BitAnd(t, 31) < 28))
    /\ (pc = "DecompressLoop" /\ state = "stateMatchDone")
          => BitAnd(At(dSrc, dIp - 1), 3) = 0

\* the decoder after an M2 match of the whole output of Compress
EmittedOpcodesWitness ==
    /\ pc = "DecompressLoop" /\ state = "stateMatchDone" /\ wholeStream
    /\ dIp >= 4 /\ At(dSrc, dIp - 2) \in 64..127 /\ dOp > 4

\* C18: a match handed to emitMatch at position ip has
\* 1 <= offset <= min(ip, 49151), 3 <= length <= 264, ip + length <= len(src)
\* and src[ip - offset + i] = src[ip + i] for each of its bytes, and emitMatch
\* can encode it; every position the hash table holds is a position of src
\* before ip with four bytes after it.
ValidMatches ==
    [][loopHead =>
          /\ \A h \in DOMAIN hashTable :
                 0 <= hashTable[h] /\ hashTable[h] < ip /\ hashTable[h] + 4 <= Len(src)
          /\ emits =>
                 LET offset == ip - candRef
                     length == IF pc' = "CompressLoop" THEN ip' - ip ELSE candLen
                 IN  /\ 1 <= offset /\ offset <= Min(ip, maxOffset)
                     /\ 3 <= length /\ length <= maxMatchLen
                     /\ ip + length <= Len(src)
                     /\ \A i \in 0..(length - 1) : At(src, ip - offset + i) = At(src, ip + i)
                     /\ emitMatch(4, offset, length).err = "nil"]_vars

\* the loop just after a match that ended beyond the thirtieth byte
ValidMatchesWitness ==
    /\ pc = "CompressLoop" /\ cerr = "none" /\ ~isFirstOutput
    /\ ip = litStart /\ ip = 1 + maxMatchLen /\ ip < Len(src)

\* what a decoder makes of the bytes Compress has emitted so far, closed by
\* the EOF marker
represented == DecompressResult(SubSeq(dst, 1, op) \o eofMarker, Len(src))

\* C19: at the head of every iteration of the main loop 0 <= litStart <= ip
\* <= len(src), and the bytes emitted so far stand for src[0..litStart)
\* exactly, so that the pending run src[litStart..ip) is not among them; after
\* a successful return the bytes emitted stand for every byte of src once, in
\* order.
CursorInvariant ==
    /\ pc = "CompressLoop" =>
          /\ 0 <= litStart /\ litStart <= ip /\ ip <= Len(src)
          /\ Len(dst) = op
          /\ represented = Ret(litStart, "nil", SubSeq(src, 1, litStart))
    /\ (pc = "Compressed" /\ cerr = "nil") =>
          DecompressResult(SubSeq(dst, 1, op), Len(src)) = Ret(Len(src), "nil", src)

\* a loop head after a match, with literals pending behind it
CursorInvariantWitness ==
    /\ pc = "CompressLoop" /\ ~isFirstOutput
    /\ 0 < litStart /\ litStart < ip /\ ip < Len(src) - minMatch

\* C20: while nothing has been emitted the cursor has not left litStart = 0,
\* and no match is found at input position 0; the output of a successful
\* Compress of a non-empty input begins with the first literal run of a
\* non-empty prefix of the input, so its first byte is not a match tag (16 or
\* 17) where the decoder starts, and ends with 0x11, 0x00, 0x00; nothing the
\* loop emits before the tail holds an EOF opcode, and the decoder leaves the
\* whole output at its last byte.
StreamShape ==
    /\ (pc = "CompressLoop" /\ isFirstOutput) => (op = 0 /\ litStart = 0)
    /\ (loopHead /\ ip = 0) => ~candFound
    /\ (pc = "CompressLoop" /\ op > 0 /\ litStart = ip) =>
          DecompressResult(SubSeq(dst, 1, op), Len(src)).err = "ErrInputOverrun"
    /\ (pc = "Compressed" /\ cerr = "nil" /\ Len(src) > 0) =>
          /\ op >= 4 /\ Len(dst) = op
          /\ dst[1] \notin {16, 17}
          /\ \E k \in 1..Len(src) :
                 LET l == emitLiterals(SubSeq(src, 1, k), MaxCompressedSize(k), TRUE)
                 IN  l.err = "nil" /\ SubSeq(dst, 1, l.n) = l.out
          /\ SubSeq(dst, op - 2, op) = <<17, 0, 0>>
    /\ (pc = "Decompressed" /\ wholeStream /\ derr = "nil") => dIp = Len(dSrc)

\* the output of a successful Compress that opens with a literal run in the
\* general form and holds a match
StreamShapeWitness ==
    /\ pc = "Compressed" /\ cerr = "nil" /\ Len(src) > 0
    /\ ~isFirstOutput /\ dst[1] < 16

-----------------------------------------------------------------------------
(* The handlers of the decoder, one iteration at a time                    *)

\* the loop is about to run the handler of the state st
inState(st) == pc = "DecompressLoop" /\ state = st

\* the iteration ends without a return
goesOn == pc' = "DecompressLoop"

\* t := int(src[ip])
tag == At(dSrc, dIp)

\* the iteration consumes n bytes of src and copies the last k of them to dst
literalsCopied(n, k) ==
    /\ dIp' = dIp + n
    /\ dOp' = dOp + k
    /\ dDst' = dDst \o Slice(dSrc, dIp + n - k, dIp + n)

\* the iteration consumes nothing and writes nothing
nothingConsumed == dIp' = dIp /\ dOp' = dOp /\ dDst' = dDst

\* C21: the start state is the state of the first iteration only and no
\* iteration leads to it; with first byte t > 17 it consumes the byte, copies
\* exactly t - 17 literals and goes to MatchNext for t in 18..20 and to
\* FirstLiteralRun otherwise; with t <= 17 it consumes nothing and goes to
\* LiteralRun.
StartState ==
    [][/\ (pc = "DecompressLoop" /\ goesOn) => state' # "stateStart"
       /\ inState("stateStart") => steps = 0
       /\ (inState("stateStart") /\ goesOn) =>
             /\ lastMOff' = lastMOff
             /\ IF tag > 17
                THEN /\ literalsCopied(1 + (tag - 17), tag - 17)
                     /\ state' = IF tag \in 18..20 THEN "stateMatchNext"
                                 ELSE "stateFirstLiteralRun"
                ELSE nothingConsumed /\ state' = "stateLiteralRun"]_vars

\* the decoder after a first run of one literal
StartStateWitness ==
    /\ inState("stateMatchNext") /\ steps = 1 /\ dIp = 2 /\ dOp = 1 /\ dSrc[1] = 18

\* the number of consecutive 0x00 bytes of src from position p on
zeros(p) ==
    CHOOSE z \in 0..(Len(dSrc) - p) :
        /\ \A i \in 0..(z - 1) : At(dSrc, p + i) = 0
        /\ (p + z < Len(dSrc) => At(dSrc, p + z) # 0)

\* the length a zero length field stands for, its bytes starting at p
extended(p, base) == 255 * zeros(p) + base + At(dSrc, p + zeros(p))

\* C22: in the LiteralRun state a tag t >= 16 is left where it is for the
\* Match state; a tag t < 16 starts a literal run of exactly t + 3 bytes, t
\* being the extended length when the tag is 0, and the next state is
\* FirstLiteralRun; the state is entered only from Start and from MatchDone,
\* by iterations that copy nothing, so never after a literal run.
LiteralRunState ==
    [][/\ (pc = "DecompressLoop" /\ goesOn /\ state' = "stateLiteralRun") =>
             (state \in {"stateStart", "stateMatchDone"} /\ nothingConsumed)
       /\ (inState("stateLiteralRun") /\ goesOn) =>
             /\ lastMOff' = lastMOff
             /\ IF tag >= 16 THEN nothingConsumed /\ state' = "stateMatch"
                ELSE /\ state' = "stateFirstLiteralRun"
                     /\ IF tag # 0 THEN literalsCopied(1 + tag + 3, tag + 3)
                        ELSE LET t == extended(dIp + 1, 15)
                             IN  literalsCopied(1 + zeros(dIp + 1) + 1 + t + 3, t + 3)]_vars

\* the decoder after a literal run of m2MaxOffset + 1 bytes, its length
\* extended by six zero bytes
LiteralRunStateWitness ==
    /\ inState("stateFirstLiteralRun") /\ steps = 2
    /\ dSrc[1] = 0 /\ dOp = m2MaxOffset + 1 /\ dIp = 8 + dOp

\* the iteration appends k bytes to dst, each the byte off places before it
matchCopied(off, k) ==
    /\ dOp' = dOp + k
    /\ Len(dDst') = dOp + k
    /\ SubSeq(dDst', 1, dOp) = dDst
    /\ \A i \in 0..(k - 1) : At(dDst', dOp + i) = At(dDst', dOp + i - off)

\* C23: FirstLiteralRun is entered only by an iteration that copied a literal
\* run of 4 or more bytes; a tag t < 16 there is an M1 opcode that consumes one
\* more byte b, copies exactly 3 bytes from offset 1793 + (t << 6) + (b >> 2),
\* sets lastMOff to that offset and goes to MatchDone; a tag t >= 16 is left
\* unconsumed for the Match state.
FirstLiteralRunState ==
    [][/\ (pc = "DecompressLoop" /\ goesOn /\ state' = "stateFirstLiteralRun") =>
             (state \in {"stateStart", "stateLiteralRun"} /\ dOp' >= dOp + 4)
       /\ (inState("stateFirstLiteralRun") /\ goesOn) =>
             IF tag >= 16
             THEN nothingConsumed /\ state' = "stateMatch" /\ lastMOff' = lastMOff
             ELSE LET b == At(dSrc, dIp + 1)
                      off == 1793 + tag * 64 + (b \div 4)
                  IN  /\ dIp' = dIp + 2
                      /\ matchCopied(off, 3)
                      /\ lastMOff' = off
                      /\ state' = "stateMatchDone"]_vars

\* the decoder after the M1 opcode <<1, 9>> that follows 1859 literals
FirstLiteralRunStateWitness ==
    inState("stateMatchDone") /\ lastMOff = 1859 /\ dOp = 1862 /\ At(dSrc, dIp - 2) = 1

\* the Match state reads a tag t >= 64 and the iteration does not return
m2Step == inState("stateMatch") /\ dIp < Len(dSrc) /\ tag >= 64 /\ goesOn

\* what the claim says of the bytes consumed, of the offset and of the copy
m2Decoded ==
    LET off5 == BitAnd(tag, 31)
        length == ((tag \div 32) - 1) + 2
    IN  /\ state' = "stateMatchDone"
        /\ IF off5 < 28
           THEN LET off == 1 + off5 * 64 + (At(dSrc, dIp + 1) \div 4)
                IN  dIp' = dIp + 2 /\ matchCopied(off, length) /\ lastMOff' = off
           ELSE dIp' = dIp + 1 /\ matchCopied(lastMOff, length) /\ lastMOff' = lastMOff

\* C24 as stated: every M2 copies ((t >> 5) - 1) + 2 bytes, which is 3 or 4.
M2ThreeOrFour ==
    [][m2Step => (m2Decoded /\ dOp' - dOp \in {3, 4})]_vars

\* C24, amended: for every tag t >= 64 the decoder copies ((t >> 5) - 1) + 2
\* bytes, which is 3 to 8 bytes and is 3 or 4 exactly for the tags below 128;
\* the offset is 1 + ((t & 0x1f) << 6) + (b >> 2) with one offset byte b
\* consumed when (t & 0x1f) < 0x1c, and is lastMOff with no further byte
\* consumed otherwise.
M2Decoding ==
    [][m2Step =>
          /\ m2Decoded
          /\ dOp' - dOp \in 3..8
          /\ (dOp' - dOp \in {3, 4}) <=> tag < 128]_vars

\* the decoder after the M2 opcode <<224, 4>>: 8 bytes from offset 2
M2DecodingWitness ==
    /\ inState("stateMatchDone") /\ lastMOff = 2
    /\ At(dSrc, dIp - 2) = 224 /\ At(dSrc, dIp - 1) = 4 /\ dOp = 89

\* the length field of the tag at ip, where the state reads one:
\* <<field, base, addend, offset bytes>>, or <<>> where the tag has none
lengthField ==
    IF dIp >= Len(dSrc) THEN <<>>
    ELSE IF state = "stateLiteralRun" /\ tag < 16 THEN <<tag, 15, 3, 0>>
    ELSE IF state = "stateMatch" /\ tag \in 32..63 THEN <<BitAnd(tag, 31), 31, 2, 2>>
    ELSE IF state = "stateMatch" /\ tag \in 16..31 THEN <<BitAnd(tag, 7), 7, 2, 2>>
    ELSE <<>>

\* C25: a zero length field is followed by z >= 0 bytes 0x00 and one non-zero
\* byte v and stands for 255 z + base + v, base 15 in a literal run, 31 in an
\* M3 and 7 in an M4; the bytes copied are that length + 3 in a literal run
\* and + 2 in a match; if src ends before the non-zero byte the call returns
\* ErrInputOverrun; a non-zero field is the length, and no byte is consumed
\* for it.
ExtendedLengths ==
    [][(pc = "DecompressLoop" /\ lengthField # <<>>) =>
          LET f == lengthField
              z == zeros(dIp + 1)
          IN  IF f[1] # 0
              THEN goesOn => (dOp' = dOp + f[1] + f[3]
                              /\ dIp' = dIp + 1 + f[4] + (IF f[4] = 0 THEN f[1] + f[3] ELSE 0))
              ELSE IF dIp + 1 + z >= Len(dSrc)
              THEN derr' = "ErrInputOverrun" /\ unchangedOutput
              ELSE LET v == At(dSrc, dIp + 1 + z)
                       length == 255 * z + f[2] + v
                   IN  /\ v # 0
                       /\ goesOn =>
                             (dOp' = dOp + length + f[3]
                              /\ dIp' = dIp + 1 + z + 1 + f[4]
                                          + (IF f[4] = 0 THEN length + f[3] ELSE 0))]_vars

\* the decoder after an M3 whose length field is extended by one zero byte:
\* 255 + 31 + 1 + 2 bytes
ExtendedLengthsWitness ==
    /\ inState("stateMatchDone") /\ dOp = 4 + 289 /\ dIp = 10
    /\ SubSeq(dSrc, 6, 8) = <<32, 0, 1>>

\* the Match state reads an M4 tag whose length and offset bytes are all in
\* src; m4At is the position of the first offset byte
m4At == dIp + 1 + (IF BitAnd(tag, 7) = 0 THEN zeros(dIp + 1) + 1 ELSE 0)

m4Step ==
    /\ inState("stateMatch") /\ dIp < Len(dSrc) /\ tag \in 16..31
    /\ m4At + 2 <= Len(dSrc)

\* raw = ((t & 8) << 11) + (b0 << 6) + (b1 >> 2)
m4Raw == BitAnd(tag, 8) * 2048 + At(dSrc, m4At) * 64 + (At(dSrc, m4At + 1) \div 4)

\* the length of the M4 at ip
m4Len == IF BitAnd(tag, 7) = 0 THEN extended(dIp + 1, 7) ELSE BitAnd(tag, 7)

\* C26: an M4 tag with raw offset 0 ends the call with success, whatever its
\* length bits and the low bits of its last byte: nothing is copied and
\* lastMOff stays; with another raw offset the call does not end with success
\* here, the offset is raw + 16384, which is beyond op exactly when the call
\* returns ErrLookbehindOverrun, and an iteration that goes on has copied
\* len + 2 bytes from that offset; no other iteration ends with success.
M4AndEOF ==
    [][/\ (pc = "DecompressLoop" /\ derr' = "nil") => (m4Step /\ m4Raw = 0)
       /\ m4Step =>
             IF m4Raw = 0
             THEN /\ pc' = "Decompressed" /\ derr' = "nil"
                  /\ unchangedOutput /\ lastMOff' = lastMOff /\ dIp' = m4At + 2
             ELSE /\ derr' # "nil"
                  /\ derr' = "ErrLookbehindOverrun" <=> m4Raw + 16384 > dOp
                  /\ goesOn => /\ dIp' = m4At + 2
                               /\ matchCopied(m4Raw + 16384, m4Len + 2)
                               /\ lastMOff' = m4Raw + 16384
                               /\ state' = "stateMatchDone"]_vars

\* the call ended at an EOF marker with an extended length and the low bits 3
\* in its last byte, after one literal
M4AndEOFWitness ==
    /\ pc = "Decompressed" /\ derr = "nil" /\ dSrc = <<18, 7, 16, 0, 3, 0, 3>>
    /\ dIp = 7 /\ dDst = <<7>>

\* C27: MatchDone follows every match, and only a match, whose last byte
\* consumed is src[ip - 1] (the tag itself after an M2 with offset reuse);
\* with k = src[ip - 1] & 3, k = 0 leads to LiteralRun and consumes nothing,
\* k in 1..3 copies exactly k bytes of src to dst and leads to MatchNext.
MatchDoneUniform ==
    [][/\ (pc = "DecompressLoop" /\ goesOn /\ state' = "stateMatchDone") =>
             /\ matchContext /\ dOp' > dOp
             /\ dIp' > dIp /\ dIp' <= Len(dSrc)
             /\ reuseTag => dIp' - 1 = dIp
       /\ (inState("stateMatchDone") /\ goesOn) =>
             LET k == BitAnd(At(dSrc, dIp - 1), 3)
             IN  /\ lastMOff' = lastMOff
                 /\ IF k = 0 THEN nothingConsumed /\ state' = "stateLiteralRun"
                    ELSE literalsCopied(k, k) /\ state' = "stateMatchNext"]_vars

\* three trailing literals copied after an M2 with offset reuse whose tag is
\* 95: the count is 95 & 3
MatchDoneUniformWitness ==
    /\ inState("stateMatchNext") /\ dIp >= 4 /\ At(dSrc, dIp - 4) = 95
    /\ lastMOff = 67 /\ SubSeq(dDst, dOp - 2, dOp) = <<201, 202, 203>>

\* C28: MatchNext is entered only by an iteration that copied 1..3 literals
\* (Start or MatchDone); it goes to Match and consumes nothing; the Match
\* state reads a tag t < 16 only after MatchNext, as an M1 opcode: one more
\* byte b is consumed, exactly 2 bytes are copied from offset
\* 1 + (t << 6) + (b >> 2), and no literal run is copied.
MatchNextState ==
    [][/\ (pc = "DecompressLoop" /\ goesOn /\ state' = "stateMatchNext") =>
             (state \in {"stateStart", "stateMatchDone"} /\ dOp' - dOp \in 1..3)
       /\ inState("stateMatchNext") =>
             (goesOn /\ state' = "stateMatch" /\ nothingConsumed /\ lastMOff' = lastMOff)
       /\ (pc = "DecompressLoop" /\ goesOn /\ state' = "stateMatch"
             /\ dIp < Len(dSrc) /\ tag < 16) => state = "stateMatchNext"
       /\ (inState("stateMatch") /\ dIp < Len(dSrc) /\ tag < 16 /\ goesOn) =>
             LET off == 1 + tag * 64 + (At(dSrc, dIp + 1) \div 4)
             IN  /\ dIp' = dIp + 2
                 /\ matchCopied(off, 2)
                 /\ lastMOff' = off
                 /\ state' = "stateMatchDone"]_vars

\* the decoder after the M1 opcode <<1, 9>> that follows a trailing literal:
\* 2 bytes from offset 1 + 64 + 2
MatchNextStateWitness ==
    /\ inState("stateMatchDone") /\ lastMOff = 67 /\ dOp = 74
    /\ At(dSrc, dIp - 2) = 1 /\ At(dSrc, dIp - 1) = 9

\* the iteration is about to decode a match opcode
matchStep ==
    /\ pc = "DecompressLoop" /\ dIp < Len(dSrc)
    /\ state = "stateMatch" \/ (state = "stateFirstLiteralRun" /\ tag < 16)

\* the offset the opcode at ip encodes, for the opcodes that carry one
freshOffset ==
    IF tag < 16
    THEN (IF state = "stateFirstLiteralRun" THEN 1793 ELSE 1)
            + tag * 64 + (At(dSrc, dIp + 1) \div 4)
    ELSE IF tag >= 64 THEN 1 + BitAnd(tag, 31) * 64 + (At(dSrc, dIp + 1) \div 4)
    ELSE IF tag >= 32
    THEN LET q == dIp + 1 + (IF BitAnd(tag, 31) = 0 THEN zeros(dIp + 1) + 1 ELSE 0)
         IN  1 + At(dSrc, q) * 64 + (At(dSrc, q + 1) \div 4)
    ELSE m4Raw + 16384

\* C29: lastMOff is 0 when the loop is entered; an iteration that goes on
\* sets it to the offset of the opcode it decoded if that is an M1 (in
\* either context), an M2 without reuse, an M3 or an M4, and leaves it as it
\* is otherwise: after an M2 with reuse, a literal run, trailing literals and
\* a change of state; the EOF marker leaves it as it is.
LastMOffLifetime ==
    [][/\ pc = "Decompress" => lastMOff' = 0
       /\ (pc = "DecompressLoop" /\ goesOn) =>
             lastMOff' = IF matchStep /\ ~reuseTag THEN freshOffset ELSE lastMOff
       /\ (pc = "DecompressLoop" /\ derr' = "nil") => lastMOff' = lastMOff]_vars

\* the decoder after an M3 at offset 1 that follows an M2 at offset 2
LastMOffLifetimeWitness ==
    /\ inState("stateMatchDone") /\ lastMOff = 1 /\ dOp = 92
    /\ SubSeq(dSrc, dIp - 4, dIp) = <<224, 4, 33, 0, 0>>

\* C30: while a call of Decompress has not returned, lastMOff <= op at every
\* iteration, so at every opcode boundary; an M2 with offset reuse returns
\* ErrLookbehindOverrun only if lastMOff is 0.
ReuseWithinOutput ==
    [][/\ pc = "DecompressLoop" => (0 <= lastMOff /\ lastMOff <= dOp)
       /\ (inState("stateMatch") /\ reuseTag /\ derr' = "ErrLookbehindOverrun")
             => lastMOff = 0]_vars

\* the Match state about to reuse the offset 1859 at op = 1863
ReuseWithinOutputWitness ==
    inState("stateMatch") /\ reuseTag /\ lastMOff = 1859 /\ dOp = 1863

-----------------------------------------------------------------------------
(* Cursors                                                                 *)

\* the errors a cursor at the end of its buffer may produce
overrunErrors == {"ErrInputOverrun", "ErrOutputOverrun", "ErrLookbehindOverrun"}

\* C31: observed at every decoder state transition and at every encoder
\* loop iteration, ip and op never decrease and neither exceeds its buffer
\* length; a step that would move one past the end ends the call with an
\* overrun error, and with nothing else.
CursorsMonotone ==
    [][/\ pc = "DecompressLoop" =>
             /\ dIp <= dIp' /\ dIp' <= Len(dSrc)
             /\ dOp <= dOp' /\ dOp' <= dOutLen
             /\ derr' \in {"none", "nil"} \cup overrunErrors
       /\ pc = "CompressLoop" =>
             /\ ip <= ip' /\ ip' <= Len(src)
             /\ op <= op' /\ op' <= outLen
             /\ cerr' \in {"none", "nil"} \cup overrunErrors]_vars

-----------------------------------------------------------------------------
(* The order of the checks of the decoder                                  *)

\* the iteration is about to copy a literal run whose prefix bytes are all
\* in src: an initial run (Start, t > 17), a regular run (LiteralRun, t < 16)
\* or trailing literals (MatchDone, src[ip-1] & 3 # 0)
literalStep ==
    /\ pc = "DecompressLoop"
    /\ \/ state = "stateStart" /\ dIp < Len(dSrc) /\ tag > 17
       \/ /\ state = "stateLiteralRun" /\ dIp < Len(dSrc) /\ tag < 16
          /\ tag = 0 => dIp + 1 + zeros(dIp + 1) < Len(dSrc)
       \/ /\ state = "stateMatchDone" /\ dIp > 0 /\ dIp <= Len(dSrc)
          /\ BitAnd(At(dSrc, dIp - 1), 3) # 0

\* the position of the first literal of that run
literalFrom ==
    IF state = "stateMatchDone" THEN dIp
    ELSE IF state = "stateLiteralRun" /\ tag = 0 THEN dIp + 1 + zeros(dIp + 1) + 1
    ELSE dIp + 1

\* the number of literals of that run
literalLen ==
    IF state = "stateMatchDone" THEN BitAnd(At(dSrc, dIp - 1), 3)
    ELSE IF state = "stateStart" THEN tag - 17
    ELSE (IF tag = 0 THEN extended(dIp + 1, 15) ELSE tag) + 3

\* the position after the last byte of the match opcode at ip
opcodeEnd ==
    IF tag < 16 THEN dIp + 2
    ELSE IF tag >= 64 THEN (IF reuseTag THEN dIp + 1 ELSE dIp + 2)
    ELSE IF tag >= 32
    THEN dIp + 1 + (IF BitAnd(tag, 31) = 0 THEN zeros(dIp + 1) + 1 ELSE 0) + 2
    ELSE m4At + 2

\* the number of bytes the match opcode at ip copies
opcodeLen ==
    IF tag < 16 THEN (IF state = "stateFirstLiteralRun" THEN 3 ELSE 2)
    ELSE IF tag >= 64 THEN ((tag \div 32) - 1) + 2
    ELSE IF tag >= 32
    THEN (IF BitAnd(tag, 31) = 0 THEN extended(dIp + 1, 31) ELSE BitAnd(tag, 31)) + 2
    ELSE m4Len + 2

\* the offset the match opcode at ip copies from
opcodeOff == IF reuseTag THEN lastMOff ELSE freshOffset

\* the opcode at ip is the EOF marker
eofStep == matchStep /\ tag \in 16..31 /\ m4At + 2 <= Len(dSrc) /\ m4Raw = 0

-----------------------------------------------------------------------------
(* What an error return leaves in dst                                      *)

\* the call returns an error in this iteration
returnsError == pc = "DecompressLoop" /\ derr' \in overrunErrors

\* C33: Decompress stores to dst at the indices 0 .. op - 1 only and never
\* stores twice to one index: every iteration appends to the bytes below op
\* and leaves them as they are; an iteration that returns an error copies
\* nothing, so that the count returned is the number of bytes of the literal
\* runs and matches that completed and dst[n..len(dst)) is as on entry.
DecoderErrorsAtomic ==
    [][/\ pc = "DecompressLoop" =>
             /\ Len(dDst) = dOp /\ Len(dDst') = dOp'
             /\ dOp <= dOp' /\ SubSeq(dDst', 1, dOp) = dDst
             /\ derr' \in {"none", "nil"} \cup overrunErrors
       /\ returnsError => unchangedOutput]_vars

\* the call returned ErrOutputOverrun at an M2 of length 3 that follows one
\* literal, in a buffer with room for two of its three bytes
DecoderErrorsAtomicWitness ==
    /\ pc = "Decompressed" /\ derr = "ErrOutputOverrun"
    /\ dSrc = <<18, 7, 64, 0>> /\ dOutLen = 3 /\ dDst = <<7>> /\ dOp = 1

-----------------------------------------------------------------------------
(* What an error return of Compress leaves in dst                          *)

\* C34: when Compress returns ErrOutputOverrun with the count n, the cells
\* of dst it has stored to are exactly those below n: no prefix or
\* length-extension byte of a failed emission lies at or beyond n.
CompressOverrunCount ==
    (pc = "Compressed" /\ cerr = "ErrOutputOverrun") => Len(dst) = op

-----------------------------------------------------------------------------
(* The end of the stream                                                   *)

\* the loop is about to read the tag of an opcode
opcodeBoundary ==
    /\ pc = "DecompressLoop"
    /\ state \in {"stateStart", "stateLiteralRun", "stateFirstLiteralRun", "stateMatch"}

\* the call has returned success for a non-empty src
endedAtEOF == pc = "Decompressed" /\ derr = "nil" /\ Len(dSrc) > 0

\* C35: for a non-empty src the only iteration that returns success is the
\* one that consumes an M4 opcode with raw offset 0, and it returns with ip
\* just after that opcode; the bytes of src from there on are not read: the
\* result is the result for src cut at ip, and for src cut at ip and followed
\* by other bytes; an iteration that finds src at its end where it reads a
\* tag returns ErrInputOverrun.
StopsAtEOF ==
    [][/\ (pc = "DecompressLoop" /\ derr' = "nil") =>
             (eofStep /\ dIp' = m4At + 2 /\ pc' = "Decompressed")
       /\ endedAtEOF' =>
             LET read == SubSeq(dSrc', 1, dIp')
                 here == Ret(dOp', "nil", dDst')
             IN  /\ DecompressResult(read, dOutLen) = here
                 /\ DecompressResult(read \o <<255, 0>>, dOutLen) = here
       /\ (opcodeBoundary /\ dIp >= Len(dSrc)) =>
             (derr' = "ErrInputOverrun" /\ unchangedOutput)]_vars

\* the call returned success at the first of two EOF markers, with an M2 and
\* the second marker unread
StopsAtEOFWitness ==
    /\ endedAtEOF /\ dSrc = <<18, 7, 64, 0>> \o eofMarker \o <<64, 0>> \o eofMarker
    /\ dIp = 7 /\ dDst = <<7, 7, 7, 7>>

-----------------------------------------------------------------------------
(* The emitters called on their own, as the unit tests call them           *)

MaxRun == 20
MaxRoom == 6
MaxNearOffset == 130
MaxShortMatch == 12
Near == 3

\* the run lengths at which the prefix of a literal run grows or
\* emitLiterals changes branch
EdgeRuns == {237, 238, 239, 240, 272, 273, 274, 528, 529}

Runs == {Ramp(k) : k \in (0..MaxRun) \cup EdgeRuns}

\* len(dst): a small buffer, the run and up to four bytes, the size
\* MaxCompressedSize gives
RunRooms(l) ==
    (0..MaxRoom) \cup {Len(l) + k : k \in 0..4} \cup {MaxCompressedSize(Len(l))}

\* the match lengths at which the opcode grows by a byte
EdgeMatchLengths == {33, 34, 264, 265, 288, 289, 520, 544}

\* offsets and lengths around every change of form of emitMatch, and on both
\* sides of what it can encode
Offsets ==
    (1..MaxNearOffset)
        \cup UNION {(e - Near)..(e + Near) : e \in EdgeOffsets}

Lengths ==
    (-1..MaxShortMatch) \cup UNION {(e - 1)..(e + 1) : e \in EdgeMatchLengths}

MatchRooms == (0..MaxRoom) \cup {16}

InitEmit ==
    /\ idleEncoder /\ idleDecoder
    /\ eRet = Ret(0, "none", <<>>)
    /\ \/ /\ pc = "emitLiterals"
          /\ eLit \in Runs /\ eIsFirst \in BOOLEAN /\ eLen \in RunRooms(eLit)
          /\ eOffset = 0 /\ eLength = 0
       \/ /\ pc = "emitMatch"
          /\ eOffset \in Offsets /\ eLength \in Lengths /\ eLen \in MatchRooms
          /\ eLit = <<>> /\ eIsFirst = FALSE

\* n, err := emitLiterals(lit, dst, isFirst)
EmitLiterals ==
    /\ pc = "emitLiterals"
    /\ eRet' = emitLiterals(eLit, eLen, eIsFirst)
    /\ pc' = "emittedLiterals"
    /\ UNCHANGED <<eLit, eIsFirst, eOffset, eLength, eLen, cvars, dvars>>

\* n, err := emitMatch(dst, offset, length)
EmitMatch ==
    /\ pc = "emitMatch"
    /\ eRet' = emitMatch(eLen, eOffset, eLength)
    /\ pc' = "emittedMatch"
    /\ UNCHANGED <<eLit, eIsFirst, eOffset, eLength, eLen, cvars, dvars>>

EmitNext == EmitLiterals \/ EmitMatch

SpecEmit == InitEmit /\ [][EmitNext]_vars

\* the prefix the format gives a literal run of L bytes
litBand(L, first) ==
    IF first /\ L <= 3 THEN <<L + 17>>
    ELSE IF L <= 18 THEN <<L - 3>>
    ELSE <<0>> \o Rep(0, (L - 19) \div 255) \o <<((L - 19) % 255) + 1>>

\* the decoder in the state st, about to read the first byte of a stream
decoderIn(st) == [decoderEntry EXCEPT !.state = st]

\* C36: with room in dst for the prefix and the run, emitLiterals for a run
\* of L bytes stores the prefix [L + 17] if isFirst and L <= 3, [L - 3] if
\* 4 <= L <= 18, and for L > 18 the byte 0, floor((L - 19) / 255) bytes 0 and
\* the non-zero byte ((L - 19) mod 255) + 1, then the L bytes, and returns
\* the number of bytes stored; for L >= 4 the result is the same with the
\* other value of isFirst, and the decoder's LiteralRun state reads the
\* prefix as a run of exactly L bytes (its Start state, for a first run of
\* 1..3 bytes).
LiteralBands ==
    (pc = "emittedLiterals" /\ Len(eLit) > 0 /\ (eIsFirst \/ Len(eLit) >= 4)) =>
        LET L == Len(eLit)
            prefix == litBand(L, eIsFirst)
            copied == [decoderIn(IF L >= 4 THEN "stateLiteralRun" ELSE "stateStart")
                          EXCEPT !.state = IF L >= 4 THEN "stateFirstLiteralRun"
                                           ELSE "stateMatchNext",
                                 !.ip = Len(prefix) + L, !.op = L, !.dst = eLit]
        IN  eLen >= Len(prefix) + L =>
               /\ eRet = Ret(Len(prefix) + L, "nil", prefix \o eLit)
               /\ L >= 4 => emitLiterals(eLit, eLen, ~eIsFirst) = eRet
               /\ L >= 4 => stateLiteralRun(eRet.out, L, decoderIn("stateLiteralRun")) = copied
               /\ L <= 3 => stateStart(eRet.out, L, decoderIn("stateStart")) = copied

\* emitLiterals returned after a run of 274 bytes that is not the first
\* output: the prefix is 0, 0, 1
LiteralBandsWitness ==
    /\ pc = "emittedLiterals" /\ ~eIsFirst /\ Len(eLit) = 274
    /\ eRet.err = "nil" /\ SubSeq(eRet.out, 1, 4) = <<0, 0, 1, 0>>

\* C37: emitMatch stores to dst only at indices below len(dst): for every
\* offset, length and len(dst) it returns, with ErrOutputOverrun or with
\* success, and what it has stored lies inside dst, also when the
\* length-extension bytes make the opcode longer than 4 bytes.
MatchEmitterBounds ==
    pc = "emittedMatch" =>
        /\ eRet.err \in {"nil", "ErrOutputOverrun"}
        /\ Len(eRet.out) <= eLen
        /\ eRet.n = Len(eRet.out)

\* the form the format gives a match: 2 for M2, 3 for M3, 4 for M4
matchBand(offset, length) ==
    IF length <= 4 /\ offset <= m2MaxOffset THEN 2
    ELSE IF offset <= m4MaxOffset THEN 3
    ELSE 4

\* the number of bytes of the opcode of a match: two for an M2; a tag and two
\* offset bytes for an M3 or M4, and the bytes of the length extension when
\* length - 2 does not fit the tag (31 for an M3, 7 for an M4)
matchBytes(offset, length) ==
    LET fits == IF matchBand(offset, length) = 3 THEN 31 ELSE 7
    IN  IF matchBand(offset, length) = 2 THEN 2
        ELSE IF length - 2 <= fits THEN 3
        ELSE 3 + ((length - 2 - fits - 1) \div 255) + 1

\* the decoder in the Match state at the first byte of a stream, with op
\* bytes of output behind it
decoderAfter(n) == [decoderIn("stateMatch") EXCEPT !.op = n, !.dst = Rep(7, n)]

\* C38: for an offset in 1..49151 and a length >= 3, with room in dst for the
\* opcode, what emitMatch stores is read by the decoder's Match state as a
\* match of exactly that offset and that length: all the bytes stored are
\* consumed, and MatchDone then finds the trailing-literal count 0.  The
\* opcode is an M2 of 2 bytes iff the length is 3 or 4 and the offset at most
\* 1792, otherwise an M3 iff the offset is at most 16384, otherwise an M4; an
\* M2 tag never asks for the last offset, and an M4 is never the EOF marker.
MatchRoundTrip ==
    (/\ pc = "emittedMatch" /\ eOffset \in 1..maxOffset /\ eLength >= 3
     /\ eLen >= 4 /\ eLen >= matchBytes(eOffset, eLength)) =>
        LET m == eRet.out
            t == m[1]
            before == decoderAfter(eOffset)
            after == stateMatch(m, eOffset + eLength, before)
            copied == [before EXCEPT !.state = "stateMatchDone", !.ip = Len(m),
                                     !.op = eOffset + eLength, !.lastMOff = eOffset,
                                     !.dst = Rep(7, eOffset + eLength)]
        IN  /\ eRet.err = "nil" /\ eRet.n = Len(m)
            /\ Len(m) = matchBytes(eOffset, eLength)
            /\ after = copied
            /\ stateMatchDone(m, eOffset + eLength, after)
                  = [after EXCEPT !.state = "stateLiteralRun"]
            /\ CASE matchBand(eOffset, eLength) = 2 ->
                        t >= 64 /\ BitAnd(t, 31) < 28 /\ Len(m) = 2
                 [] matchBand(eOffset, eLength) = 3 -> t \in 32..63
                 [] matchBand(eOffset, eLength) = 4 -> t \in 16..31

\* emitMatch returned the opcode of a match of 265 bytes at the greatest
\* offset: an M4 with the high offset bit and a length extended by one zero
\* byte
MatchRoundTripWitness ==
    /\ pc = "emittedMatch" /\ eOffset = maxOffset /\ eLength = 265 /\ eLen = 16
    /\ eRet = Ret(5, "nil", <<24, 0, 1, 255, 252>>)

\* C39: emitMatch returns (0, ErrOutputOverrun) and stores nothing when
\* len(dst) < 4 and when the match lies outside the bands M2, M3 and M4, that
\* is when offset < 1, offset > 49151 or length < 3.
MatchEmitterRefuses ==
    (/\ pc = "emittedMatch"
     /\ eLen < 4 \/ eOffset < 1 \/ eOffset > maxOffset \/ eLength < 3)
        => eRet = Ret(0, "ErrOutputOverrun", <<>>)

-----------------------------------------------------------------------------
(* Runs of a single byte                                                   *)

\* src is k copies of one byte
singleByteRun == Len(src) > 0 /\ src = Rep(src[1], Len(src))

\* the opcode of a match at offset 1 as the format writes it: an M2 for a
\* length up to 4, an M3 with the length in its tag up to 33, an M3 with one
\* length-extension byte up to 264
runMatch(length) ==
    IF length <= 4 THEN <<(length - 1) * 32, 0>>
    ELSE IF length <= 33 THEN <<32 + (length - 2), 0, 0>>
    ELSE <<32, length - 2 - 31, 0, 0>>

\* C40: for src made of k copies of one byte b, 5 <= k <= 265, Compress
\* stores exactly 0x12, b, the opcode of one match at offset 1 of k - 1 bytes
\* (an M2 if k - 1 <= 4, otherwise an M3) and the EOF marker, at most 9 bytes;
\* in a longer run every match has at most 264 bytes, and exactly 264 where
\* that many bytes are left.
RunOfOneByte ==
    [][/\ (pc' = "Compressed" /\ exactBuffer /\ singleByteRun
              /\ Len(src) >= 5 /\ Len(src) <= 1 + maxMatchLen) =>
             /\ cerr' = "nil" /\ op' = Len(dst') /\ op' <= 9
             /\ dst' = <<18, src[1]>> \o runMatch(Len(src) - 1) \o eofMarker
       /\ (singleByteRun /\ loopHead /\ emits /\ pc' = "CompressLoop") =>
             /\ ip - candRef = 1
             /\ ip' - ip <= maxMatchLen
             /\ Len(src) - ip >= maxMatchLen => ip' - ip = maxMatchLen]_vars

\* Compress returned for "A" x 40
RunOfOneByteWitness ==
    /\ pc = "Compressed" /\ src = Rep(65, 40) /\ cerr = "nil"
    /\ dst = <<18, 65, 32, 6, 0, 0, 17, 0, 0>> /\ op = 9

====
